---------------------------- MODULE Spec2Model ----------------------------
(***************************************************************************)
(* Area processing pipeline of tumbuh.in (agro app).                       *)
(*                                                                         *)
(*   SpecCollect  one GEEVariableService.collect call, the provider calls  *)
(*                interleaved on the inner thread pool                     *)
(*                (src/agro/services/gee_service.py)                       *)
(*   Spec         one process_area request from the creation of the Area   *)
(*                to the response (src/agro/views.py), the per-tile        *)
(*                collect tasks interleaved on the outer thread pool       *)
(*   SpecFn       the same steps, _collect_variables being given any       *)
(*                descriptor list (null centroids included)                *)
(*   SpecApply    _apply_recommendations called twice on collected tiles   *)
(*   SpecTile     one PolygonTiler.tile call                               *)
(*   SpecRequest  one process_area request from its body on                *)
(*   SpecSummary  build_summary called twice on the same tiles             *)
(*   SpecPools    a request or a collect call, for the two thread pools    *)
(***************************************************************************)
EXTENDS Integers, Sequences, FiniteSets, TLC

VARIABLES
    \* ---- GEEVariableService.collect (one call) ----
    c_pc,        \* "off" | "submit" | "wait" | "returned"
    c_arg,       \* <<lat, lon>> the call was given
    c_state,     \* provider name -> "new" | "queued" | "running" | "done" | "consumed"
    c_call,      \* provider name -> what func(**kwargs) did (NoCall before it ran)
    c_future,    \* provider name -> the future of safe_call (NoFuture before it is done)
    c_results,   \* the dict `results`: stored provider names -> value
    c_ret,       \* the returned dict (NoValue before the return)
    \* ---- process_area (one request) ----
    pc,              \* position of the request thread
    gee_max_workers, \* settings.GEE_MAX_WORKERS
    tile_geoms,      \* the descriptors _collect_variables is given
    area,            \* the Area object of the request
    task,            \* index of a valid tile -> state of its collect task
    raising,         \* index of a valid tile -> the providers whose call raised
    futures,         \* index of a valid tile -> the future of its collect task
    results,         \* the list `results`, in completion order
    tiles,           \* the Tile objects, in creation order
    recommendations, \* what GeminiCropAdvisor.recommend returned
    applied,         \* how many tiles _apply_recommendations has assigned
    response,        \* the response of the request
    \* ---- _apply_recommendations (called twice on the same tiles) ----
    a_pc,        \* "off" | "apply" | "again" | "done"
    a_tiles,     \* the Tile objects
    a_payload,   \* the recommendation payload
    a_first,     \* the outcome of the first call, the tiles after it included
    \* ---- PolygonTiler.tile (one call) ----
    t_pc,        \* "off" | "call" | "returned"
    t_arg,       \* the GeoJSON, the tile size and the flavour of the geometry library
    t_ret,       \* what the call returned or raised
    \* ---- the request body of process_area ----
    request,     \* the body, and the flavour of the geometry library
    \* ---- build_summary (called twice on the same tiles) ----
    s_pc,        \* "off" | "call" | "again" | "done"
    s_area,      \* the Area object
    s_tiles,     \* the Tile objects
    s_ret,       \* what the first call returned or raised
    s_again,     \* what the second call returned or raised
    \* ---- the database, and get_area_detail after the request ----
    db,          \* the row of the Area and the rows of its tiles
    detail,      \* the response of get_area_detail
    \* ---- _ensure_initialized (the threads of a process) ----
    e_pc,        \* thread -> its position in a call of _ensure_initialized
    e_calls,     \* thread -> the calls it has begun
    e_flag,      \* the module global _EE_INITIALIZED
    e_inits,     \* how many ee.Initialize calls have succeeded
    \* ---- compute_bounds (one call) ----
    b_pc,        \* "off" | "call" | "returned"
    b_arg,       \* the geometry, the matrix and the tiles
    b_ret        \* what the call returned

c_vars == <<c_pc, c_arg, c_state, c_call, c_future, c_results, c_ret>>
p_vars == <<pc, gee_max_workers, tile_geoms, area, task, raising, futures,
            results, tiles, recommendations, applied, response>>
a_vars == <<a_pc, a_tiles, a_payload, a_first>>
t_vars == <<t_pc, t_arg, t_ret>>
s_vars == <<s_pc, s_area, s_tiles, s_ret, s_again>>
d_vars == <<db, detail>>
e_vars == <<e_pc, e_calls, e_flag, e_inits>>
b_vars == <<b_pc, b_arg, b_ret>>
vars == <<c_vars, p_vars, a_vars, t_vars, s_vars, d_vars, request, e_vars, b_vars>>

-----------------------------------------------------------------------------
(* Python / JSON values, tagged with their type: a conversion or a lookup  *)
(* can then depend on the type the way the code does.                      *)

None == [t |-> "none"]
Str(s) == [t |-> "str", s |-> s]
Num(n) == [t |-> "num", n |-> n]        \* a finite int or float
NaN == [t |-> "nan"]                    \* a float that is nan or +-inf
Inf == [t |-> "inf"]                    \* a float known to be +inf
List(items) == [t |-> "list", items |-> items]
Tuple(items) == [t |-> "tuple", items |-> items]
Dict(d) == [t |-> "dict", d |-> d]
EmptyDict == Dict(<<>>)
EmptyList == List(<<>>)

IsDict(v) == v.t = "dict"
IsList(v) == v.t = "list"
HasKey(v, key) == IsDict(v) /\ key \in DOMAIN v.d

\* dict.get(key, default) of a value that is a dict
Get(v, key, default) == IF key \in DOMAIN v.d THEN v.d[key] ELSE default

\* bool(value)
Truthy(v) ==
    CASE v.t = "none" -> FALSE
      [] v.t = "str" -> v.s # ""
      [] v.t = "num" -> v.n # 0
      [] v.t = "nan" -> TRUE
      [] v.t = "inf" -> TRUE
      [] v.t = "list" -> v.items # <<>>
      [] v.t = "tuple" -> v.items # <<>>
      [] v.t = "dict" -> DOMAIN v.d # {}

\* What a call can do: return a value, or raise
Returned(value) == [raised |-> "none", value |-> value]
Raise(exception, message) == [raised |-> exception, message |-> message]

NoValue == [t |-> "unset"]
NoCall == [kind |-> "none"]
NoFuture == [kind |-> "pending"]

\* gee_service.py:27-34, the provider table in insertion order
Providers == <<"climate", "soil", "topography", "landcover", "seasonal", "nighttime">>
ProviderNames == {Providers[i] : i \in DOMAIN Providers}

\* The record an exception is turned into: {"status": "error", "message": str(exc)}
ErrorRecord(message) == Dict([status |-> Str("error"), message |-> Str(message)])

\* What the providers of api_documentation.py return on success: a dict with
\* status "ok" that echoes the point asked about; landcover carries the
\* vegetation indices, seasonal the long-term precipitation.
OkPayload(name, lat, lon) ==
    CASE name = "landcover" ->
            Dict([status |-> Str("ok"), provider |-> Str(name), lat |-> lat, lon |-> lon,
                  vegetation_indices |-> Dict([ndvi |-> Num(1), ndwi |-> Num(0)])])
      [] name = "seasonal" ->
            Dict([status |-> Str("ok"), provider |-> Str(name), lat |-> lat, lon |-> lon,
                  data |-> Dict([long_term_avg_precip_mm |-> Num(100)]),
                  long_term_avg_precip_mm |-> Num(100)])
      [] OTHER ->
            Dict([status |-> Str("ok"), provider |-> Str(name), lat |-> lat, lon |-> lon])

\* str(exc) of the exception a provider raises
ProviderMessage(name) == "no data: " \o name

\* What one call func(**kwargs) can do: return, or raise.
CallReturn(v) == [kind |-> "return", val |-> v]
CallRaise(m) == [kind |-> "raise", msg |-> m]

\* The providers of api_documentation.py return their dict or raise; safe_call
\* takes any callable, also one that breaks the provider contract and
\* returns None.
ProviderOutcomes(name, lat, lon) ==
    { CallReturn(OkPayload(name, lat, lon)), CallRaise(ProviderMessage(name)) }
CallOutcomes(name, lat, lon) ==
    ProviderOutcomes(name, lat, lon) \cup { CallReturn(None) }

\* A future: the value the submitted callable returned, or its exception.
FutureValue(v) == [kind |-> "value", val |-> v]
FutureException(m) == [kind |-> "exception", msg |-> m]

\* Faulty variant of collect: one failing provider call fails the whole tile.
collect_all_or_nothing(calls) ==
    IF \E name \in ProviderNames : calls[name].kind = "raise"
    THEN LET failed == CHOOSE name \in ProviderNames : calls[name].kind = "raise"
         IN  Dict([name \in ProviderNames |-> ErrorRecord(calls[failed].msg)])
    ELSE Dict([name \in ProviderNames |-> calls[name].val])

\* Faulty variant of safe_call: the exception is swallowed and None returned.
safe_call_swallow(call) ==
    IF call.kind = "raise" THEN FutureValue(None) ELSE FutureValue(call.val)

\* gee_service.py:65-91.  The result of func is returned as it is (its status
\* is only logged); an exception becomes the error record.
safe_call(call) ==
    IF call.kind = "raise"
    THEN FutureValue(ErrorRecord(call.msg))
    ELSE FutureValue(call.val)

\* gee_service.py:48-52: future.result() with its defensive handler
future_value(fut) ==
    IF fut.kind = "exception" THEN ErrorRecord(fut.msg) ELSE fut.val

\* results.get(name): None for a name that was never stored
results_get(res, name) == IF name \in DOMAIN res THEN res[name] ELSE None

\* gee_service.py:55-62: the returned dict, one results.get per provider name
collect_return(res) == Dict([name \in ProviderNames |-> results_get(res, name)])

\* Faulty variant of collect_max_workers: one thread per provider.
collect_unbounded == Len(Providers)

\* gee_service.py:37
collect_max_workers == IF 4 < Len(Providers) THEN 4 ELSE Len(Providers)

\* gee_service.py:22-62 as a function of what the six calls do: the dict
\* collect returns (the order in which the calls end does not enter it).
collect(calls) ==
    collect_return([name \in ProviderNames |-> future_value(safe_call(calls[name]))])

-----------------------------------------------------------------------------
(* SpecCollect: one collect call.                                          *)

\* Centroids the call is made for
SampleCentroids == { <<Num(-6), Num(107)>>, <<Num(-7), Num(108)>> }

\* No collect call is followed (Spec, SpecFn, SpecApply).
c_Off ==
    /\ c_pc = "off"
    /\ c_arg = <<None, None>>
    /\ c_state = [name \in ProviderNames |-> "new"]
    /\ c_call = [name \in ProviderNames |-> NoCall]
    /\ c_future = [name \in ProviderNames |-> NoFuture]
    /\ c_results = <<>>
    /\ c_ret = NoValue

\* No request is followed (SpecCollect).
p_Off ==
    /\ pc = "off"
    /\ gee_max_workers = 4
    /\ tile_geoms = <<>>
    /\ area = [status |-> "none", metadata |-> None, processing_seconds |-> None]
    /\ task = <<>>
    /\ raising = <<>>
    /\ futures = <<>>
    /\ results = <<>>
    /\ tiles = <<>>
    /\ recommendations = NoValue
    /\ applied = 0
    /\ response = NoValue

\* No call of _apply_recommendations is followed on its own.
a_Off ==
    /\ a_pc = "off"
    /\ a_tiles = <<>>
    /\ a_payload = NoValue
    /\ a_first = NoValue

\* No call of the tiler is followed on its own.
t_Off ==
    /\ t_pc = "off"
    /\ t_arg = NoValue
    /\ t_ret = NoValue

\* No call of build_summary is followed on its own.
s_Off ==
    /\ s_pc = "off"
    /\ s_area = NoValue
    /\ s_tiles = NoValue
    /\ s_ret = NoValue
    /\ s_again = NoValue

\* No database is followed.
d_Off ==
    /\ db = NoValue
    /\ detail = NoValue

\* No call of _ensure_initialized is followed.
e_Off ==
    /\ e_pc = <<>>
    /\ e_calls = <<>>
    /\ e_flag = FALSE
    /\ e_inits = 0

\* No call of compute_bounds is followed.
b_Off ==
    /\ b_pc = "off"
    /\ b_arg = NoValue
    /\ b_ret = NoValue

c_Init ==
    /\ c_pc = "submit"
    /\ c_arg \in SampleCentroids
    /\ c_state = [name \in ProviderNames |-> "new"]
    /\ c_call = [name \in ProviderNames |-> NoCall]
    /\ c_future = [name \in ProviderNames |-> NoFuture]
    /\ c_results = <<>>
    /\ c_ret = NoValue
    /\ p_Off
    /\ a_Off
    /\ t_Off
    /\ s_Off
    /\ d_Off
    /\ e_Off
    /\ b_Off
    /\ request = NoValue

c_Running == {name \in ProviderNames : c_state[name] = "running"}

\* gee_service.py:41-44: executor.submit, one provider after the other
c_Submit ==
    /\ c_pc = "submit"
    /\ \E i \in DOMAIN Providers :
        /\ c_state[Providers[i]] = "new"
        /\ \A j \in 1..(i - 1) : c_state[Providers[j]] # "new"
        /\ c_state' = [c_state EXCEPT ![Providers[i]] = "queued"]
        /\ c_pc' = IF i = Len(Providers) THEN "wait" ELSE "submit"
    /\ UNCHANGED <<c_arg, c_call, c_future, c_results, c_ret, p_vars, a_vars, t_vars, s_vars, d_vars, request, e_vars, b_vars>>

\* A pool thread takes the oldest queued work item (the pool holds at most
\* max_workers threads, its queue is first in first out).
c_Start ==
    /\ c_pc \in {"submit", "wait"}
    /\ Cardinality(c_Running) < collect_max_workers
    /\ \E i \in DOMAIN Providers :
        /\ c_state[Providers[i]] = "queued"
        /\ \A j \in 1..(i - 1) : c_state[Providers[j]] # "queued"
        /\ c_state' = [c_state EXCEPT ![Providers[i]] = "running"]
    /\ UNCHANGED <<c_pc, c_arg, c_call, c_future, c_results, c_ret, p_vars, a_vars, t_vars, s_vars, d_vars, request, e_vars, b_vars>>

\* gee_service.py:65-91: safe_call(func, **kwargs) ends, the future is set
c_Finish ==
    /\ c_pc \in {"submit", "wait"}
    /\ \E name \in c_Running :
       \E call \in CallOutcomes(name, c_arg[1], c_arg[2]) :
        /\ c_call' = [c_call EXCEPT ![name] = call]
        /\ c_future' = [c_future EXCEPT ![name] = safe_call(call)]
        /\ c_state' = [c_state EXCEPT ![name] = "done"]
    /\ UNCHANGED <<c_pc, c_arg, c_results, c_ret, p_vars, a_vars, t_vars, s_vars, d_vars, request, e_vars, b_vars>>

\* Faulty variant of c_Store: the values are stored under the provider names
\* in turn, in the order in which the futures are yielded.
c_Store_in_turn ==
    /\ c_pc = "wait"
    /\ \E name \in ProviderNames :
        /\ c_state[name] = "done"
        /\ c_results' = (Providers[Cardinality(DOMAIN c_results) + 1]
                            :> future_value(c_future[name])) @@ c_results
        /\ c_state' = [c_state EXCEPT ![name] = "consumed"]
    /\ UNCHANGED <<c_pc, c_arg, c_call, c_future, c_ret, p_vars, a_vars, t_vars, s_vars, d_vars, request, e_vars, b_vars>>

\* gee_service.py:46-53: as_completed yields a finished future; its value is
\* stored under the name future_map gives it.
c_Store ==
    /\ c_pc = "wait"
    /\ \E name \in ProviderNames :
        /\ c_state[name] = "done"
        /\ c_results' = (name :> future_value(c_future[name])) @@ c_results
        /\ c_state' = [c_state EXCEPT ![name] = "consumed"]
    /\ UNCHANGED <<c_pc, c_arg, c_call, c_future, c_ret, p_vars, a_vars, t_vars, s_vars, d_vars, request, e_vars, b_vars>>

\* gee_service.py:55-62: every future was yielded, the pool is shut down and
\* the dict returned.
c_Return ==
    /\ c_pc = "wait"
    /\ \A name \in ProviderNames : c_state[name] = "consumed"
    /\ c_ret' = collect_return(c_results)
    /\ c_pc' = "returned"
    /\ UNCHANGED <<c_arg, c_state, c_call, c_future, c_results, p_vars, a_vars, t_vars, s_vars, d_vars, request, e_vars, b_vars>>

NextCollect == c_Submit \/ c_Start \/ c_Finish \/ c_Store \/ c_Return

SpecCollect == c_Init /\ [][NextCollect]_vars

-----------------------------------------------------------------------------
(* process_area: the data of one request.                                  *)

\* Most tile descriptors per request, most entries per recommendation payload
MaxTiles == 3
MaxEntries == 2

\* The grid cells of the requests followed, in the raster order of the
\* tiler's loops (tiling.py:49-51).
RasterCells == << <<0, 0>>, <<0, 1>>, <<1, 0>>, <<1, 1>> >>
CellSets ==
    { S \in SUBSET {RasterCells[i] : i \in DOMAIN RasterCells} :
        S # {} /\ Cardinality(S) <= MaxTiles }

\* tiling.py:75-76: the centroid (lat, lon) of the tile of a cell
Centroid(row, col) == <<Num(row - 7), Num(107 + col)>>

\* tiling.py:12-17, 79-86
TileGeometry(row, col, centroid) ==
    [row |-> row, col |-> col,
     polygon_wgs84 |-> [gtype |-> "Polygon", cell |-> <<row, col>>],
     centroid |-> centroid]

\* tiling.py:49-88: the descriptors the tiler emits, one per cell whose
\* intersection with the polygon is kept, in raster order.
TilerOutput(S) ==
    LET kept == SelectSeq(RasterCells, LAMBDA cell : cell \in S)
    IN  [i \in DOMAIN kept |->
            TileGeometry(kept[i][1], kept[i][2], Centroid(kept[i][1], kept[i][2]))]

\* Any descriptor list: a centroid may hold None in either place.
NullableCentroids(row, col) ==
    { Centroid(row, col), <<None, None>>, <<Centroid(row, col)[1], None>> }
DescriptorLists(S) ==
    LET kept == SelectSeq(RasterCells, LAMBDA cell : cell \in S)
    IN  { [i \in DOMAIN kept |-> TileGeometry(kept[i][1], kept[i][2], cs[i])] :
            cs \in { f \in [DOMAIN kept -> UNION {NullableCentroids(c[1], c[2]) : c \in S}] :
                        \A i \in DOMAIN kept : f[i] \in NullableCentroids(kept[i][1], kept[i][2]) } }

\* settings.GEE_MAX_WORKERS (views.py:628; 4 when it is not set)
WorkerSettings == {0, 2, 4}

\* Faulty variant of IsValidTile: only the latitude is looked at.
IsValidTile_lat(tile_geom) == tile_geom.centroid[1] # None

\* views.py:625
IsValidTile(tile_geom) == tile_geom.centroid[1] # None /\ tile_geom.centroid[2] # None
valid_tiles(geoms) == SelectSeq(geoms, IsValidTile)

\* Faulty variant of max_workers: the size is not raised to 1.
max_workers_unclamped(setting, n) == IF setting < n THEN setting ELSE n

\* views.py:629
max_workers(setting, n) ==
    LET capped == IF setting < n THEN setting ELSE n
    IN  IF capped < 1 THEN 1 ELSE capped

\* views.py:787-827: dicts and lists are converted element by element, a
\* tuple becomes a list, a nan or infinite float None; None, str, int and
\* finite floats are kept.
RECURSIVE make_json_safe(_)
make_json_safe(v) ==
    CASE v.t = "dict" -> Dict([k \in DOMAIN v.d |-> make_json_safe(v.d[k])])
      [] v.t \in {"list", "tuple"} ->
            List([i \in DOMAIN v.items |-> make_json_safe(v.items[i])])
      [] v.t \in {"nan", "inf"} -> None
      [] OTHER -> v

\* The sets of providers whose call raises, for the collect of one tile
RaisingSets == { {}, {"soil"}, ProviderNames }
ProviderCalls(raised, lat, lon) ==
    [name \in ProviderNames |->
        IF name \in raised THEN CallRaise(ProviderMessage(name))
        ELSE CallReturn(OkPayload(name, lat, lon))]

\* str(exc) of an exception raised by the collect task itself
UnexpectedMessage == "can't start new thread"

\* A sort key (row, col) before another
KeyBefore(a, b) == a.row < b.row \/ (a.row = b.row /\ a.col < b.col)

\* Faulty variant of SortedByRowCol: the results are kept in completion order.
Unsorted(items) == items

\* views.py:676: sorted(results, key=(row, col)), a stable sort: an item goes
\* behind the items whose key is not behind its own.
RECURSIVE SortedByRowCol(_)
SortedByRowCol(items) ==
    IF items = <<>> THEN <<>>
    ELSE LET n == Len(items)
             head == SortedByRowCol(SubSeq(items, 1, n - 1))
             item == items[n]
             k == Cardinality({i \in DOMAIN head :
                                ~KeyBefore(item.tile_geom, head[i].tile_geom)})
         IN  SubSeq(head, 1, k) \o <<item>> \o SubSeq(head, k + 1, Len(head))

\* Faulty variant of NewTile: a tile whose collect failed is created as "failed".
NewTileFailed(item) ==
    [row_index |-> item.tile_geom.row,
     col_index |-> item.tile_geom.col,
     centroid_lat |-> item.tile_geom.centroid[1],
     centroid_lon |-> item.tile_geom.centroid[2],
     geometry |-> item.tile_geom.polygon_wgs84,
     variables |-> item.variables,
     gemini_recommendations |-> EmptyList,
     status |-> IF HasKey(item.variables, "message") THEN "failed" ELSE "collected"]

\* views.py:677-687, models.py:32-48: Tile.objects.create
NewTile(item) ==
    [row_index |-> item.tile_geom.row,
     col_index |-> item.tile_geom.col,
     centroid_lat |-> item.tile_geom.centroid[1],
     centroid_lon |-> item.tile_geom.centroid[2],
     geometry |-> item.tile_geom.polygon_wgs84,
     variables |-> item.variables,
     gemini_recommendations |-> EmptyList,
     status |-> "collected"]

\* tiling.py:19-24: to_geojson reads the exterior ring, which only a
\* Polygon has
to_geojson_raises(tile_geom) == tile_geom.polygon_wgs84.gtype # "Polygon"

\* views.py:676-690: the tiles created from the sorted results
create_tiles(res) ==
    LET sorted == SortedByRowCol(res)
    IN  [i \in DOMAIN sorted |-> NewTile(sorted[i])]

-----------------------------------------------------------------------------
(* _apply_recommendations and the response.                                *)

Range(seq) == {seq[i] : i \in DOMAIN seq}

\* views.py:780: f"{tile.row_index}-{tile.col_index}"
tile_key(tile) == ToString(tile.row_index) \o "-" \o ToString(tile.col_index)

\* views.py:775-778: the entries the loop over recommendations["tiles"] goes
\* through, or the exception raised while the mapping is built.  A payload
\* that is no dict or list cannot be searched; a list has no key "tiles";
\* iterating a dict or a str gives strings, which have no .get; a tile_id
\* that is a list or a dict cannot be a key.
NoEntries == [raised |-> FALSE, entries |-> <<>>, message |-> ""]
MappingError(message) == [raised |-> TRUE, entries |-> <<>>, message |-> message]
mapping_entries(payload) ==
    CASE payload.t = "dict" ->
            IF "tiles" \notin DOMAIN payload.d THEN NoEntries
            ELSE LET group == payload.d["tiles"]
                 IN  CASE group.t = "list" ->
                            IF \E e \in Range(group.items) : ~IsDict(e)
                            THEN MappingError("object has no attribute 'get'")
                            ELSE IF \E e \in Range(group.items) :
                                        Get(e, "tile_id", None).t \in {"list", "dict"}
                            THEN MappingError("unhashable type")
                            ELSE [raised |-> FALSE, entries |-> group.items, message |-> ""]
                       [] group.t = "dict" ->
                            IF DOMAIN group.d = {} THEN NoEntries
                            ELSE MappingError("object has no attribute 'get'")
                       [] group.t = "str" ->
                            IF group.s = "" THEN NoEntries
                            ELSE MappingError("object has no attribute 'get'")
                       [] OTHER -> MappingError("object is not iterable")
      [] payload.t = "list" ->
            IF Str("tiles") \in Range(payload.items)
            THEN MappingError("list indices must be integers")
            ELSE NoEntries
      [] OTHER -> MappingError("argument is not iterable")

\* views.py:778, 781: mapping.get(key, []) after the loop; a later entry of
\* the same tile_id has replaced an earlier one, an entry without
\* "recommendations" stands for [].
mapping_get(entries, key) ==
    LET hits == {i \in DOMAIN entries : Get(entries[i], "tile_id", None) = Str(key)}
    IN  IF hits = {} THEN EmptyList
        ELSE Get(entries[CHOOSE i \in hits : \A j \in hits : j <= i],
                 "recommendations", EmptyList)

\* models.py:47: gemini_recommendations is a JSONField that is not nullable;
\* saving None violates the NOT NULL constraint.
save_raises(tile) == tile.gemini_recommendations = None

\* Faulty variant of assign_recommendations: a tile found in the payload is marked
\* "enriched" whatever its list holds.
assign_always_enriched(tile, entries) ==
    LET value == mapping_get(entries, tile_key(tile))
        found == \E i \in DOMAIN entries :
                    Get(entries[i], "tile_id", None) = Str(tile_key(tile))
    IN  [tile EXCEPT !.gemini_recommendations = value,
                     !.status = IF found THEN "enriched" ELSE @]

\* Faulty variant of assign_recommendations: the list is added to what the tile holds.
assign_appending(tile, entries) ==
    LET value == mapping_get(entries, tile_key(tile))
        old == tile.gemini_recommendations
    IN  [tile EXCEPT !.gemini_recommendations =
                        IF IsList(value) /\ IsList(old)
                        THEN List(old.items \o value.items) ELSE value,
                     !.status = IF Truthy(value) THEN "enriched" ELSE @]

\* Faulty variant of assign_recommendations: the variables of an enriched
\* tile are dropped.
assign_dropping_variables(tile, entries) ==
    LET value == mapping_get(entries, tile_key(tile))
    IN  [tile EXCEPT !.gemini_recommendations = value,
                     !.status = IF Truthy(value) THEN "enriched" ELSE @,
                     !.variables = IF Truthy(value) THEN EmptyDict ELSE @]

\* views.py:780-783: one tile of the loop, before its save
assign_recommendations(tile, entries) ==
    LET value == mapping_get(entries, tile_key(tile))
    IN  [tile EXCEPT !.gemini_recommendations = value,
                     !.status = IF Truthy(value) THEN "enriched" ELSE @]

\* views.py:779-784: the loop over the tiles from tile i on; it stops at the
\* first save that raises.
RECURSIVE apply_loop(_, _, _)
apply_loop(ts, entries, i) ==
    IF i > Len(ts) THEN [tiles |-> ts, raised |-> FALSE, applied |-> Len(ts), message |-> ""]
    ELSE LET assigned == [ts EXCEPT ![i] = assign_recommendations(ts[i], entries)]
         IN  IF save_raises(assigned[i])
             THEN [tiles |-> assigned, raised |-> TRUE, applied |-> i,
                   message |-> "NOT NULL constraint failed"]
             ELSE apply_loop(assigned, entries, i + 1)

\* views.py:774-784
apply_recommendations(ts, payload) ==
    LET mapping == mapping_entries(payload)
    IN  IF mapping.raised
        THEN [tiles |-> ts, raised |-> TRUE, applied |-> 0, message |-> mapping.message]
        ELSE apply_loop(ts, mapping.entries, 1)

\* views.py:784: tile.save(update_fields=[...]) of the tiles assigned before
\* the loop ended; the rows of the other tiles stay as they were.
saved_rows(rows, r) ==
    [k \in DOMAIN rows |->
        IF r.raised /\ k >= r.applied THEN rows[k]
        ELSE [rows[k] EXCEPT !.gemini_recommendations = r.tiles[k].gemini_recommendations,
                             !.status = r.tiles[k].status]]

\* Faulty variant of save_failed: a save that raised leaves no mark.
save_failed_unmarked(r) == FALSE

\* views.py:784: the loop was left by a save that raised
save_failed(r) == r.raised /\ r.applied > 0

\* aggregator.py:24-26: a chain of .get(key, {}) raises when a value on the
\* way is no dict.
RECURSIVE chain_raises(_, _)
chain_raises(v, path) ==
    /\ path # <<>>
    /\ \/ ~IsDict(v)
       \/ chain_raises(Get(v, path[1], EmptyDict), Tail(path))

\* aggregator.py:21-23, 61-62: recs[0]["plant"] and rec["plant"]
recs_of(tile) ==
    IF Truthy(tile.gemini_recommendations) THEN tile.gemini_recommendations ELSE EmptyList
first_plant_raises(tile) ==
    LET recs == recs_of(tile)
    IN  /\ Truthy(recs)
        /\ \/ ~IsList(recs)
           \/ ~HasKey(recs.items[1], "plant")
           \/ recs.items[1].d["plant"].t \in {"list", "dict"}
any_plant_raises(tile) ==
    LET recs == recs_of(tile)
    IN  /\ Truthy(recs)
        /\ \/ ~IsList(recs)
           \/ \E r \in Range(recs.items) : ~HasKey(r, "plant")

\* aggregator.py:10-64: build_summary raises
build_summary_raises(ts) ==
    \/ \E i \in DOMAIN ts :
        \/ first_plant_raises(ts[i])
        \/ chain_raises(ts[i].variables, <<"landcover", "vegetation_indices", "ndvi">>)
        \/ chain_raises(ts[i].variables, <<"seasonal", "data", "long_term_avg_precip_mm">>)
    \/ /\ \E i \in DOMAIN ts : Truthy(recs_of(ts[i]))
       /\ \E i \in DOMAIN ts : any_plant_raises(ts[i])

\* serializers.py:8-18
tile_to_dict(tile) ==
    [row_index |-> tile.row_index, col_index |-> tile.col_index,
     centroid |-> [lat |-> tile.centroid_lat, lon |-> tile.centroid_lon],
     geometry |-> tile.geometry, variables |-> tile.variables,
     recommendations |-> tile.gemini_recommendations, status |-> tile.status]

\* serializers.py:21-31
area_to_dict(a) == [status |-> a.status, processing_seconds |-> a.processing_seconds]

-----------------------------------------------------------------------------
(* build_summary (src/agro/services/aggregator.py).  Numbers are exact:    *)
(* Num(n) is the integer n, Quotient(p, q) the number p / q.               *)

Abs(n) == IF n < 0 THEN 0 - n ELSE n

RECURSIVE GCD(_, _)
GCD(a, b) == IF b = 0 THEN a ELSE GCD(b, a % b)

Numer(v) == v.n
Denom(v) == IF "over" \in DOMAIN v THEN v.over ELSE 1

\* p / q for q > 0, in lowest terms
Quotient(p, q) ==
    LET g == GCD(Abs(p), q)
    IN  IF p = 0 THEN Num(0)
        ELSE IF q \div g = 1 THEN Num(p \div g)
        ELSE [t |-> "num", n |-> p \div g, over |-> q \div g]

Plus(a, b) == Quotient(Numer(a) * Denom(b) + Numer(b) * Denom(a), Denom(a) * Denom(b))

\* isinstance(value, (int, float))
is_number(v) == v.t \in {"num", "nan", "inf"}

\* sum(values) of numbers
RECURSIVE sum(_)
sum(values) ==
    IF values = <<>> THEN Num(0)
    ELSE IF \E i \in DOMAIN values : values[i].t # "num" THEN NaN
    ELSE Plus(values[1], sum(Tail(values)))

\* sum(values) / len(values), statistics.mean(values): values is not empty
mean(values) ==
    LET total == sum(values)
    IN  IF total.t # "num" THEN NaN
        ELSE Quotient(Numer(total), Denom(total) * Len(values))

RECURSIVE Digits(_, _)
Digits(n, places) ==
    IF places = 0 THEN "" ELSE Digits(n \div 10, places - 1) \o ToString(n % 10)

RECURSIVE Pow10(_)
Pow10(places) == IF places = 0 THEN 1 ELSE 10 * Pow10(places - 1)

\* f"{value:.<places>f}": the decimal numeral with that many places, the
\* value rounded to the nearest and a tie to the even digit
format_f(value, places) ==
    IF value.t # "num" THEN "nan"
    ELSE LET scaled == Abs(Numer(value)) * Pow10(places)
             whole == scaled \div Denom(value)
             rest == scaled % Denom(value)
             rounded == IF 2 * rest > Denom(value)
                           \/ (2 * rest = Denom(value) /\ whole % 2 = 1)
                        THEN whole + 1 ELSE whole
         IN  (IF Numer(value) < 0 THEN "-" ELSE "")
                \o ToString(rounded \div Pow10(places))
                \o "." \o Digits(rounded % Pow10(places), places)

\* aggregator.py:24-26: a chain of .get(key, {}) ended by .get(key); the
\* values on the way are dicts
RECURSIVE chain_get(_, _)
chain_get(v, path) ==
    IF Len(path) = 1 THEN Get(v, path[1], None)
    ELSE chain_get(Get(v, path[1], EmptyDict), Tail(path))

\* aggregator.py:24
ndvi_of(tile) == chain_get(tile.variables, <<"landcover", "vegetation_indices", "ndvi">>)
\* aggregator.py:25
ndwi_of(tile) == chain_get(tile.variables, <<"landcover", "vegetation_indices", "ndwi">>)
\* aggregator.py:26: the nested value, or the top-level one when the nested
\* value is falsy
precip_of(tile) ==
    LET nested == chain_get(tile.variables, <<"seasonal", "data", "long_term_avg_precip_mm">>)
    IN  IF Truthy(nested) THEN nested
        ELSE chain_get(tile.variables, <<"seasonal", "long_term_avg_precip_mm">>)

\* aggregator.py:27-32: the values appended to one of the three lists
RECURSIVE numeric_values(_)
numeric_values(values) ==
    IF values = <<>> THEN <<>>
    ELSE (IF is_number(values[1]) THEN <<values[1]>> ELSE <<>>)
            \o numeric_values(Tail(values))

KeyNdvi == "Rata-rata NDVI"
KeyNdwi == "Rata-rata NDWI"
KeyPrecip == "Curah Hujan Bulanan"

\* Faulty variant of env_summary: a signal no tile carries is reported as zero.
env_summary_zero(ts) ==
    LET ndvi_values == numeric_values([i \in DOMAIN ts |-> ndvi_of(ts[i])])
        ndwi_values == numeric_values([i \in DOMAIN ts |-> ndwi_of(ts[i])])
        precip_values == numeric_values([i \in DOMAIN ts |-> precip_of(ts[i])])
    IN  [k \in {KeyNdvi, KeyNdwi, KeyPrecip} |->
            CASE k = KeyNdvi ->
                    Str(format_f(IF ndvi_values = <<>> THEN Num(0) ELSE mean(ndvi_values), 3))
              [] k = KeyNdwi ->
                    Str(format_f(IF ndwi_values = <<>> THEN Num(0) ELSE mean(ndwi_values), 3))
              [] k = KeyPrecip ->
                    Str(format_f(IF precip_values = <<>> THEN Num(0)
                                 ELSE mean(precip_values), 1) \o " mm")]

\* aggregator.py:34-39
env_summary(ts) ==
    LET ndvi_values == numeric_values([i \in DOMAIN ts |-> ndvi_of(ts[i])])
        ndwi_values == numeric_values([i \in DOMAIN ts |-> ndwi_of(ts[i])])
        precip_values == numeric_values([i \in DOMAIN ts |-> precip_of(ts[i])])
        keys == (IF ndvi_values # <<>> THEN {KeyNdvi} ELSE {})
                    \cup (IF ndwi_values # <<>> THEN {KeyNdwi} ELSE {})
                    \cup (IF precip_values # <<>> THEN {KeyPrecip} ELSE {})
    IN  [k \in keys |->
            CASE k = KeyNdvi -> Str(format_f(mean(ndvi_values), 3))
              [] k = KeyNdwi -> Str(format_f(mean(ndwi_values), 3))
              [] k = KeyPrecip -> Str(format_f(mean(precip_values), 1) \o " mm")]

\* aggregator.py:13, 20-23: dominant_counter, its keys in insertion order
RECURSIVE dominant_counter(_, _)
dominant_counter(ts, counter) ==
    IF ts = <<>> THEN counter
    ELSE LET recs == recs_of(ts[1])
             plant == recs.items[1].d["plant"]
             at == {i \in DOMAIN counter : counter[i].plant = plant}
         IN  IF ~Truthy(recs) THEN dominant_counter(Tail(ts), counter)
             ELSE IF at = {}
             THEN dominant_counter(Tail(ts), Append(counter, [plant |-> plant, count |-> 1]))
             ELSE dominant_counter(Tail(ts),
                    [i \in DOMAIN counter |->
                        IF i \in at THEN [counter[i] EXCEPT !.count = @ + 1]
                        ELSE counter[i]])

\* Faulty variant of most_common: the counter in insertion order, unsorted.
most_common_unsorted(counter) == counter

\* Counter.most_common(): sorted by descending count, the sort stable
RECURSIVE most_common(_)
most_common(counter) ==
    IF counter = <<>> THEN <<>>
    ELSE LET rest == most_common(SubSeq(counter, 1, Len(counter) - 1))
             last == counter[Len(counter)]
             before == {i \in DOMAIN rest : rest[i].count >= last.count}
             n == Cardinality(before)
         IN  SubSeq(rest, 1, n) \o <<last>> \o SubSeq(rest, n + 1, Len(rest))

\* Every recommendation of every tile, in order
RECURSIVE all_recs(_)
all_recs(ts) ==
    IF ts = <<>> THEN <<>> ELSE recs_of(ts[1]).items \o all_recs(Tail(ts))

RECURSIVE confidences(_, _)
confidences(recs, plant) ==
    IF recs = <<>> THEN <<>>
    ELSE (IF recs[1].d["plant"] = plant /\ is_number(Get(recs[1], "confidence", None))
          THEN <<recs[1].d["confidence"]>> ELSE <<>>)
            \o confidences(Tail(recs), plant)

\* Faulty variant of average_confidence: only the first-ranked
\* recommendation of each tile is read.
RECURSIVE first_recs(_)
first_recs(ts) ==
    IF ts = <<>> THEN <<>>
    ELSE (IF Truthy(recs_of(ts[1])) THEN <<recs_of(ts[1]).items[1]>> ELSE <<>>)
            \o first_recs(Tail(ts))
average_confidence_first(ts, plant) ==
    LET vals == confidences(first_recs(ts), plant)
    IN  IF vals = <<>> THEN Num(0) ELSE mean(vals)

\* aggregator.py:58-64
average_confidence(ts, plant) ==
    LET vals == confidences(all_recs(ts), plant)
    IN  IF vals = <<>> THEN Num(0) ELSE mean(vals)

\* aggregator.py:41-48
dominant_crops(ts) ==
    LET ranked == most_common(dominant_counter(ts, <<>>))
    IN  [i \in DOMAIN ranked |->
            [plant |-> ranked[i].plant, tiles |-> ranked[i].count,
             avg_confidence |-> average_confidence(ts, ranked[i].plant)]]

\* aggregator.py:10-55
build_summary(a, ts) ==
    IF build_summary_raises(ts) THEN Raise("Exception", "")
    ELSE Returned([tile_count |-> Len(ts),
                   dominant_crops |-> dominant_crops(ts),
                   env_summary |-> env_summary(ts),
                   processing_seconds |-> IF Truthy(a.processing_seconds)
                                          THEN a.processing_seconds ELSE Num(0)])

-----------------------------------------------------------------------------
(* SpecSummary: build_summary on the tiles of an Area, called twice.       *)

MaxSummaryTiles == 3

\* A recommendation record (gemini_service.py:45)
Rec(plant, confidence) ==
    Dict([plant |-> Str(plant), confidence |-> confidence, rationale |-> Str("-")])

\* What gemini_recommendations can hold: ranked lists, a confidence that is
\* a text or absent, the empty list, and None (assigned, never saved)
SummaryRecLists ==
    { List(<<Rec("Rice", Quotient(9, 10))>>),
      List(<<Rec("Rice", Quotient(7, 10))>>),
      List(<<Rec("Corn", Quotient(5, 10))>>),
      List(<<Rec("Corn", Quotient(5, 10)), Rec("Rice", Quotient(1, 10))>>),
      List(<<Rec("Rice", Str("high"))>>),
      List(<<Dict([plant |-> Str("Rice")])>>),
      EmptyList,
      None }

Landcover(ndvi, ndwi) ==
    Dict([status |-> Str("ok"),
          vegetation_indices |-> Dict([ndvi |-> ndvi, ndwi |-> ndwi])])

\* The variables of a tile: every signal a number; every signal 0, the
\* precipitation under "data" only (tests.py:65) or also at the top level
\* (api_documentation.py:459-463); error records; signals that are no
\* numbers, the precipitation at the top level only; nothing
FullVariables ==
    Dict([landcover |-> Landcover(Quotient(1, 2), Quotient(0 - 1, 4)),
          seasonal |-> Dict([data |-> Dict([long_term_avg_precip_mm |-> Num(100)]),
                             long_term_avg_precip_mm |-> Num(100)])])
SummaryVariables ==
    { FullVariables,
      Dict([landcover |-> Landcover(Num(0), Num(0)),
            seasonal |-> Dict([data |-> Dict([long_term_avg_precip_mm |-> Num(0)])])]),
      Dict([landcover |-> Landcover(Num(0), Num(0)),
            seasonal |-> Dict([data |-> Dict([long_term_avg_precip_mm |-> Num(0)]),
                               long_term_avg_precip_mm |-> Num(0)])]),
      Dict([landcover |-> ErrorRecord("no data: landcover"),
            seasonal |-> ErrorRecord("no data: seasonal")]),
      Dict([landcover |-> Landcover(Str("n/a"), None),
            seasonal |-> Dict([long_term_avg_precip_mm |-> Num(75)])]),
      EmptyDict }

SummaryKinds ==
    { [recs |-> l, variables |-> FullVariables] : l \in SummaryRecLists }
        \cup { [recs |-> EmptyList, variables |-> v] : v \in SummaryVariables }

\* The tiles of one row of the grid, of the kinds given
SummaryTiles(kinds) ==
    [i \in DOMAIN kinds |->
        [NewTile([tile_geom |-> TileGeometry(0, i - 1, Centroid(0, i - 1)),
                  variables |-> kinds[i].variables])
            EXCEPT !.gemini_recommendations = kinds[i].recs]]

SummaryAreas ==
    { [status |-> "enriched", metadata |-> EmptyDict, processing_seconds |-> seconds] :
        seconds \in {None, Num(2)} }

s_Init ==
    /\ s_pc = "call"
    /\ s_area \in SummaryAreas
    /\ s_tiles \in { SummaryTiles(kinds) :
                        kinds \in UNION { [1..n -> SummaryKinds] : n \in 0..MaxSummaryTiles } }
    /\ s_ret = NoValue
    /\ s_again = NoValue
    /\ c_Off
    /\ p_Off
    /\ a_Off
    /\ t_Off
    /\ d_Off
    /\ e_Off
    /\ b_Off
    /\ request = NoValue

\* aggregator.py:10-55: nothing is assigned to the Area or to a tile
s_Summarize ==
    /\ s_pc = "call"
    /\ s_ret' = build_summary(s_area, s_tiles)
    /\ s_pc' = "again"
    /\ UNCHANGED <<s_area, s_tiles, s_again, c_vars, p_vars, a_vars, t_vars, d_vars, request, e_vars, b_vars>>

\* aggregator.py:10-55, on the same Area and tiles
s_SummarizeAgain ==
    /\ s_pc = "again"
    /\ s_again' = build_summary(s_area, s_tiles)
    /\ s_pc' = "done"
    /\ UNCHANGED <<s_area, s_tiles, s_ret, c_vars, p_vars, a_vars, t_vars, d_vars, request, e_vars, b_vars>>

NextSummary == s_Summarize \/ s_SummarizeAgain

SpecSummary == s_Init /\ [][NextSummary]_vars
-----------------------------------------------------------------------------
(* Spec: one process_area request, from the creation of the Area on.       *)

NoArea == [status |-> "none", metadata |-> None, processing_seconds |-> None]
Raised == [t |-> "raised"]

\* The database before the request: no Area, no Tile. area and tiles are
\* the rows as the connection of the request sees them, committed what the
\* other connections see; needs_rollback is the mark Django sets on the
\* connection when a save raises inside an atomic block.
NoCommitted == [area |-> NoArea, tiles |-> <<>>]
NoRows == [area |-> NoArea, tiles |-> <<>>, needs_rollback |-> FALSE,
           committed |-> NoCommitted]

\* str(exc) of a failing GeminiCropAdvisor call
GeminiMessage == "Respons Gemini tidak berbentuk JSON yang valid."

\* Recommendation records (gemini_service.py:45)
RecPadi == Dict([plant |-> Str("Padi"), confidence |-> Num(1), rationale |-> Str("Cocok")])
RecJagung == Dict([plant |-> Str("Jagung"), confidence |-> None, rationale |-> Str("-")])

\* What the "recommendations" of a payload entry can hold
RecLists == { List(<<RecPadi, RecJagung>>), List(<<RecJagung>>), EmptyList, None }

\* The entries of a payload for the tile ids `keys`: with or without
\* "recommendations"
Entries(keys) ==
    { Dict([tile_id |-> Str(k), recommendations |-> r]) : k \in keys, r \in RecLists }
        \cup { Dict([tile_id |-> Str(k)]) : k \in keys }

SeqsUpTo(S, n) == UNION { [1..m -> S] : m \in 0..n }

\* Payloads whose "tiles" is a list of at most n entries
ListPayloads(keys, n) ==
    { Dict([tiles |-> List(es)]) : es \in SeqsUpTo(Entries(keys), n) }

\* Payloads without the key "tiles", or with a "tiles" of another shape
OddPayloads ==
    { Dict([error |-> Str("quota")]),
      EmptyList,
      None,
      Dict([tiles |-> None]),
      Dict([tiles |-> Str("0-0")]),
      Dict([tiles |-> List(<<Str("0-0")>>)]),
      Dict([tiles |-> Dict([k00 |-> List(<<RecPadi>>)])]) }

CellKeys == { ToString(RasterCells[i][1]) \o "-" \o ToString(RasterCells[i][2]) :
                i \in DOMAIN RasterCells }
UnknownKey == "9-9"

\* A payload with the same list for every tile
FullPayload(ts) ==
    Dict([tiles |-> List([i \in DOMAIN ts |->
            Dict([tile_id |-> Str(tile_key(ts[i])),
                  recommendations |-> List(<<RecPadi, RecJagung>>)])])])

\* A payload with a list for every tile but the last, whose list is null
NullTailPayload(ts) ==
    Dict([tiles |-> List([i \in DOMAIN ts |->
            Dict([tile_id |-> Str(tile_key(ts[i])),
                  recommendations |-> IF i = Len(ts) THEN None
                                      ELSE List(<<RecPadi, RecJagung>>)])])])

\* A payload whose lists start with Padi for one tile and with Jagung for
\* the next
AlternatingPayload(ts) ==
    Dict([tiles |-> List([i \in DOMAIN ts |->
            Dict([tile_id |-> Str(tile_key(ts[i])),
                  recommendations |-> IF i % 2 = 1 THEN List(<<RecJagung>>)
                                      ELSE List(<<RecPadi, RecJagung>>)])])])

\* The payloads recommend returns in the requests followed
RequestPayloads(ts) ==
    ListPayloads({tile_key(ts[i]) : i \in DOMAIN ts} \cup {UnknownKey}, 1)
        \cup OddPayloads
        \cup {FullPayload(ts), NullTailPayload(ts), AlternatingPayload(ts)}

\* time.perf_counter() - start_timer
Durations == {Num(0), Num(2)}

InitRequest(geoms, settings) ==
    /\ pc = "create"
    /\ gee_max_workers \in settings
    /\ tile_geoms \in geoms
    /\ area = NoArea
    /\ task = <<>>
    /\ raising = <<>>
    /\ futures = <<>>
    /\ results = <<>>
    /\ tiles = <<>>
    /\ recommendations = NoValue
    /\ applied = 0
    /\ response = NoValue
    /\ request = NoValue
    /\ c_Off
    /\ a_Off
    /\ t_Off
    /\ s_Off
    /\ db = NoRows
    /\ detail = NoValue
    /\ e_Off
    /\ b_Off

\* The request has passed the checks of views.py:206-229; tile_geoms is what
\* the tiler returned.
Init == InitRequest({TilerOutput(S) : S \in CellSets}, WorkerSettings)

\* _collect_variables is given any descriptor list (GEE_MAX_WORKERS not set).
InitFn == InitRequest(UNION {DescriptorLists(S) : S \in CellSets}, {4})

NValid == Len(valid_tiles(tile_geoms))
Running == {i \in DOMAIN task : task[i] = "running"}

\* views.py:233-240
CreateArea ==
    /\ pc = "create"
    /\ area' = [status |-> "collecting", metadata |-> EmptyDict, processing_seconds |-> None]
    /\ db' = [db EXCEPT !.area = area']
    /\ pc' = "collect"
    /\ UNCHANGED <<gee_max_workers, tile_geoms, task, raising, futures, results, tiles,
                   recommendations, applied, response, detail,
                   c_vars, a_vars, t_vars, s_vars, request, e_vars, b_vars>>

\* views.py:620-629: no valid tile, no tile
EnterCollect ==
    /\ pc = "collect"
    /\ pc' = IF NValid = 0 THEN "mark" ELSE "submit"
    /\ UNCHANGED <<gee_max_workers, tile_geoms, area, task, raising, futures, results, tiles,
                   recommendations, applied, response, c_vars, a_vars, t_vars, s_vars, d_vars, request, e_vars, b_vars>>

\* views.py:639-650: executor.submit(GEEVariableService.collect, ...) for the
\* next valid tile
SubmitTile ==
    /\ pc = "submit"
    /\ task' = Append(task, "queued")
    /\ futures' = Append(futures, NoFuture)
    /\ raising' = Append(raising, {})
    /\ pc' = IF Len(task) + 1 = NValid THEN "wait" ELSE "submit"
    /\ UNCHANGED <<gee_max_workers, tile_geoms, area, results, tiles,
                   recommendations, applied, response, c_vars, a_vars, t_vars, s_vars, d_vars, request, e_vars, b_vars>>

\* A pool thread takes the oldest queued collect task.
WorkerStart ==
    /\ pc \in {"submit", "wait"}
    /\ Cardinality(Running) < max_workers(gee_max_workers, NValid)
    /\ \E i \in DOMAIN task :
        /\ task[i] = "queued"
        /\ \A j \in 1..(i - 1) : task[j] # "queued"
        /\ task' = [task EXCEPT ![i] = "running"]
    /\ UNCHANGED <<pc, gee_max_workers, tile_geoms, area, raising, futures, results, tiles,
                   recommendations, applied, response, c_vars, a_vars, t_vars, s_vars, d_vars, request, e_vars, b_vars>>

\* The collect of tile i ends: it returns its dict (gee_service.py:22-62),
\* whichever provider calls raised ...
WorkerReturn ==
    /\ pc \in {"submit", "wait"}
    /\ \E i \in Running : \E raised \in RaisingSets :
        LET centroid == valid_tiles(tile_geoms)[i].centroid
        IN  /\ futures' = [futures EXCEPT ![i] =
                    FutureValue(collect(ProviderCalls(raised, centroid[1], centroid[2])))]
            /\ raising' = [raising EXCEPT ![i] = raised]
            /\ task' = [task EXCEPT ![i] = "done"]
    /\ UNCHANGED <<pc, gee_max_workers, tile_geoms, area, results, tiles,
                   recommendations, applied, response, c_vars, a_vars, t_vars, s_vars, d_vars, request, e_vars, b_vars>>

\* ... or the task itself raises (say its pool cannot start a thread).
WorkerRaise ==
    /\ pc \in {"submit", "wait"}
    /\ \E i \in Running :
        /\ futures' = [futures EXCEPT ![i] = FutureException(UnexpectedMessage)]
        /\ task' = [task EXCEPT ![i] = "done"]
    /\ UNCHANGED <<pc, gee_max_workers, tile_geoms, area, raising, results, tiles,
                   recommendations, applied, response, c_vars, a_vars, t_vars, s_vars, d_vars, request, e_vars, b_vars>>

\* views.py:655-673: future.result() or the error record of its exception
raw_variables(fut) ==
    IF fut.kind = "exception" THEN ErrorRecord(fut.msg) ELSE fut.val

\* views.py:652-674: as_completed yields a finished future
TakeResult ==
    /\ pc = "wait"
    /\ \E i \in DOMAIN task :
        /\ task[i] = "done"
        /\ results' = Append(results,
                [tile_geom |-> valid_tiles(tile_geoms)[i],
                 variables |-> make_json_safe(raw_variables(futures[i]))])
        /\ task' = [task EXCEPT ![i] = "consumed"]
    /\ UNCHANGED <<pc, gee_max_workers, tile_geoms, area, raising, futures, tiles,
                   recommendations, applied, response, c_vars, a_vars, t_vars, s_vars, d_vars, request, e_vars, b_vars>>

\* views.py:676-689: the pool is shut down and the tiles are created in
\* sorted order, each with the GeoJSON of its descriptor.
CreateTiles ==
    /\ pc = "wait"
    /\ \A i \in DOMAIN task : task[i] = "consumed"
    /\ IF \E i \in DOMAIN results : to_geojson_raises(results[i].tile_geom)
       THEN \* the exception leaves the atomic block: what was created is
            \* rolled back and the request is answered by the error page
            /\ tiles' = <<>>
            /\ area' = NoArea
            /\ db' = NoRows
            /\ response' = [code |-> 500]
            /\ pc' = "done"
       ELSE /\ tiles' = create_tiles(results)
            /\ db' = [db EXCEPT !.tiles = create_tiles(results)]
            /\ pc' = "mark"
            /\ UNCHANGED <<area, response>>
    /\ UNCHANGED <<gee_max_workers, tile_geoms, task, raising, futures, results,
                   recommendations, applied, detail,
                   c_vars, a_vars, t_vars, s_vars, request, e_vars, b_vars>>

\* Faulty variant of MarkCollected: the Area is saved as soon as it is marked.
MarkCollected_saved ==
    /\ pc = "mark"
    /\ area' = [area EXCEPT !.status = "collected"]
    /\ db' = [db EXCEPT !.area = area']
    /\ results' = <<>>
    /\ pc' = "recommend"
    /\ UNCHANGED <<gee_max_workers, tile_geoms, task, raising, futures, tiles,
                   recommendations, applied, response, detail,
                   c_vars, a_vars, t_vars, s_vars, request, e_vars, b_vars>>

\* views.py:690, 243: _collect_variables returns (its list `results` goes
\* with its frame) and the Area is marked.
MarkCollected ==
    /\ pc = "mark"
    /\ area' = [area EXCEPT !.status = "collected"]
    /\ results' = <<>>
    /\ pc' = "recommend"
    /\ UNCHANGED <<gee_max_workers, tile_geoms, task, raising, futures, tiles,
                   recommendations, applied, response, c_vars, a_vars, t_vars, s_vars, d_vars, request, e_vars, b_vars>>

\* Faulty variant of enrichment_failed: the Area is put back to "collecting".
enrichment_failed_restart(a, message) ==
    [a EXCEPT !.status = "collecting", !.metadata = Dict([gemini_error |-> Str(message)])]

\* Faulty variant of enrichment_failed: the reason is not kept.
enrichment_failed_silent(a, message) == [a EXCEPT !.status = "failed"]

\* views.py:263-265: the handler of the enrichment block
enrichment_failed(a, message) ==
    [a EXCEPT !.status = "failed", !.metadata = Dict([gemini_error |-> Str(message)])]

\* views.py:246-260: GeminiCropAdvisor(...).recommend(...) returns a payload
RecommendReturn ==
    /\ pc = "recommend"
    /\ recommendations' \in RequestPayloads(tiles)
    /\ pc' = "apply"
    /\ UNCHANGED <<gee_max_workers, tile_geoms, area, task, raising, futures, results, tiles,
                   applied, response, c_vars, a_vars, t_vars, s_vars, d_vars, request, e_vars, b_vars>>

\* views.py:246-265: the constructor or recommend raises
RecommendRaise ==
    /\ pc = "recommend"
    /\ recommendations' = Raised
    /\ area' = enrichment_failed(area, GeminiMessage)
    /\ pc' = "save"
    /\ UNCHANGED <<gee_max_workers, tile_geoms, task, raising, futures, results, tiles,
                   applied, response, c_vars, a_vars, t_vars, s_vars, d_vars, request, e_vars, b_vars>>

\* views.py:261-265: _apply_recommendations, then ENRICHED, or the handler
Apply ==
    /\ pc = "apply"
    /\ LET r == apply_recommendations(tiles, recommendations)
       IN  /\ tiles' = r.tiles
           /\ db' = [db EXCEPT !.tiles = saved_rows(db.tiles, r),
                               !.needs_rollback = save_failed(r)]
           /\ applied' = r.applied
           /\ area' = IF r.raised THEN enrichment_failed(area, r.message)
                      ELSE [area EXCEPT !.status = "enriched"]
    /\ pc' = "save"
    /\ UNCHANGED <<gee_max_workers, tile_geoms, task, raising, futures, results,
                   recommendations, response, detail,
                   c_vars, a_vars, t_vars, s_vars, request, e_vars, b_vars>>

\* Faulty variant of commit: the Area is committed without its tiles.
commit_area_only(rows, a) ==
    [rows EXCEPT !.area = a, !.committed = [area |-> a, tiles |-> <<>>]]

\* views.py:233, 268: area.save() is the last statement of the atomic
\* block; leaving the block commits the Area and the tiles together.
commit(rows, a) ==
    [rows EXCEPT !.area = a, !.committed = [area |-> a, tiles |-> rows.tiles]]

\* views.py:267-268. After a save that raised inside the block the
\* connection refuses every statement: area.save() raises, the exception
\* leaves the atomic block, which rolls back, and the request is answered
\* by the error page.
SaveArea ==
    /\ pc = "save"
    /\ \E seconds \in Durations : area' = [area EXCEPT !.processing_seconds = seconds]
    /\ IF db.needs_rollback
       THEN /\ db' = NoRows
            /\ response' = [code |-> 500]
            /\ pc' = "done"
       ELSE /\ db' = commit(db, area')
            /\ pc' = "summary"
            /\ UNCHANGED response
    /\ UNCHANGED <<gee_max_workers, tile_geoms, task, raising, futures, results, tiles,
                   recommendations, applied, detail,
                   c_vars, a_vars, t_vars, s_vars, request, e_vars, b_vars>>

\* views.py:270-281
Respond ==
    /\ pc = "summary"
    /\ response' =
        LET aggregates == build_summary(area, tiles)
        IN  IF aggregates.raised # "none" THEN [code |-> 500]
            ELSE [code |-> 200, status |-> "success", area |-> area_to_dict(area),
                  tiles |-> [i \in DOMAIN tiles |-> tile_to_dict(tiles[i])],
                  aggregates |-> aggregates.value]
    /\ pc' = "done"
    /\ UNCHANGED <<gee_max_workers, tile_geoms, area, task, raising, futures, results, tiles,
                   recommendations, applied, c_vars, a_vars, t_vars, s_vars, d_vars, request, e_vars, b_vars>>

\* Faulty variant of tiles_all: the rows come in descending order.
RECURSIVE tiles_all_descending(_)
tiles_all_descending(rows) ==
    IF rows = <<>> THEN <<>>
    ELSE LET last == CHOOSE i \in DOMAIN rows : \A j \in DOMAIN rows :
                        \/ rows[j].row_index < rows[i].row_index
                        \/ /\ rows[j].row_index = rows[i].row_index
                           /\ rows[j].col_index <= rows[i].col_index
         IN  <<rows[last]>> \o tiles_all_descending(
                [k \in 1..(Len(rows) - 1) |-> IF k < last THEN rows[k] ELSE rows[k + 1]])

\* views.py:287, models.py:52-54: area.tiles.all(), the rows in the order
\* of Meta.ordering (row_index, col_index)
RECURSIVE tiles_all(_)
tiles_all(rows) ==
    IF rows = <<>> THEN <<>>
    ELSE LET first == CHOOSE i \in DOMAIN rows : \A j \in DOMAIN rows :
                        \/ rows[i].row_index < rows[j].row_index
                        \/ /\ rows[i].row_index = rows[j].row_index
                           /\ rows[i].col_index <= rows[j].col_index
         IN  <<rows[first]>> \o tiles_all(
                [k \in 1..(Len(rows) - 1) |-> IF k < first THEN rows[k] ELSE rows[k + 1]])

\* views.py:284-296: get_area_detail for the Area of the request, once the
\* request is over
GetAreaDetail ==
    /\ pc = "done"
    /\ detail = NoValue
    /\ detail' =
        IF db.committed.area = NoArea THEN [code |-> 404]
        ELSE LET aggregates == build_summary(db.committed.area,
                                             tiles_all(db.committed.tiles))
             IN  IF aggregates.raised # "none" THEN [code |-> 500]
                 ELSE [code |-> 200, status |-> "success",
                       area |-> area_to_dict(db.committed.area),
                       aggregates |-> aggregates.value]
    /\ UNCHANGED <<pc, gee_max_workers, tile_geoms, area, task, raising, futures, results, tiles,
                   recommendations, applied, response, db,
                   c_vars, a_vars, t_vars, s_vars, request, e_vars, b_vars>>

Next ==
    \/ CreateArea \/ EnterCollect \/ SubmitTile
    \/ WorkerStart \/ WorkerReturn \/ WorkerRaise \/ TakeResult \/ CreateTiles
    \/ MarkCollected \/ RecommendReturn \/ RecommendRaise \/ Apply \/ SaveArea \/ Respond
    \/ GetAreaDetail

Spec == Init /\ [][Next]_vars

SpecFn == InitFn /\ [][Next]_vars

-----------------------------------------------------------------------------
(* SpecApply: _apply_recommendations on collected tiles, called twice with *)
(* the same payload.                                                        *)

\* The tiles _collect_variables returns for the cells S when every provider
\* call succeeded
CollectedTiles(S) ==
    LET geoms == TilerOutput(S)
    IN  create_tiles([i \in DOMAIN geoms |->
            [tile_geom |-> geoms[i],
             variables |-> make_json_safe(collect(
                ProviderCalls({}, geoms[i].centroid[1], geoms[i].centroid[2])))]])

ApplyPayloads == ListPayloads(CellKeys \cup {UnknownKey}, MaxEntries) \cup OddPayloads

a_Init ==
    /\ a_pc = "apply"
    /\ a_tiles \in {CollectedTiles(S) : S \in CellSets}
    /\ a_payload \in ApplyPayloads
    /\ a_first = NoValue
    /\ c_Off
    /\ p_Off
    /\ t_Off
    /\ s_Off
    /\ d_Off
    /\ e_Off
    /\ b_Off
    /\ request = NoValue

\* views.py:774-784
a_Apply ==
    /\ a_pc = "apply"
    /\ LET r == apply_recommendations(a_tiles, a_payload)
       IN  /\ a_tiles' = r.tiles
           /\ a_first' = r
    /\ a_pc' = "again"
    /\ UNCHANGED <<a_payload, c_vars, p_vars, t_vars, s_vars, d_vars, request, e_vars, b_vars>>

\* views.py:774-784, on the tiles the first call left
a_ApplyAgain ==
    /\ a_pc = "again"
    /\ a_tiles' = apply_recommendations(a_tiles, a_payload).tiles
    /\ a_pc' = "done"
    /\ UNCHANGED <<a_payload, a_first, c_vars, p_vars, t_vars, s_vars, d_vars, request, e_vars, b_vars>>

NextApply == a_Apply \/ a_ApplyAgain

SpecApply == a_Init /\ [][NextApply]_vars

-----------------------------------------------------------------------------
(* PolygonTiler.tile (tiling.py).  Planar coordinates are whole metres; a  *)
(* polygon is the union of axis-parallel rectangles with disjoint          *)
(* interiors; geographic coordinates are fixed-point numbers.              *)

\* Largest side of a bounding box, in steps of ten metres
MaxSpan == 10

Rect(x0, y0, x1, y1) == [x0 |-> x0, y0 |-> y0, x1 |-> x1, y1 |-> y1]
Max2(a, b) == IF a < b THEN b ELSE a
Min2(a, b) == IF a < b THEN a ELSE b
CeilDiv(a, b) == (a + b - 1) \div b

\* The common points of two rectangles; NoPoints when there is none
NoPoints == Rect(1, 1, 0, 0)
HasPoints(r) == r.x0 <= r.x1 /\ r.y0 <= r.y1
RectArea(r) == IF HasPoints(r) THEN (r.x1 - r.x0) * (r.y1 - r.y0) ELSE 0
Clip(r, c) ==
    LET m == Rect(Max2(r.x0, c.x0), Max2(r.y0, c.y0), Min2(r.x1, c.x1), Min2(r.y1, c.y1))
    IN  IF HasPoints(m) THEN m ELSE NoPoints
IsPoint(r) == HasPoints(r) /\ r.x0 = r.x1 /\ r.y0 = r.y1
IsSegment(r) == HasPoints(r) /\ RectArea(r) = 0 /\ ~IsPoint(r)

\* Two rectangles of positive area share a piece of boundary
SharesEdge(a, b) == IsSegment(Clip(a, b))

RECURSIVE SumArea(_)
SumArea(rects) == IF rects = <<>> THEN 0 ELSE RectArea(Head(rects)) + SumArea(Tail(rects))

\* Twice the first moments of a union of rectangles about the point o, for
\* its centroid
RECURSIVE SumMomentX(_, _)
SumMomentX(rects, o) ==
    IF rects = <<>> THEN 0
    ELSE RectArea(Head(rects)) * (Head(rects).x0 + Head(rects).x1 - 2 * o)
            + SumMomentX(Tail(rects), o)
RECURSIVE SumMomentY(_, _)
SumMomentY(rects, o) ==
    IF rects = <<>> THEN 0
    ELSE RectArea(Head(rects)) * (Head(rects).y0 + Head(rects).y1 - 2 * o)
            + SumMomentY(Tail(rects), o)

\* A shapely geometry: its type, its parts, and what buffer(0) would make of
\* it ("valid": nothing to repair; "split": an invalid ring whose lobes
\* become the parts of a MultiPolygon; "vanish": nothing is left).  A
\* polygonal geometry holds rectangles of positive area, at most two per
\* polygon; a LineString or Point holds degenerate rectangles.
Geometry(gtype, rects) == [gtype |-> gtype, rects |-> rects, fix |-> "valid"]
EmptyGeometry == Geometry("Polygon", <<>>)
is_valid(geom) == geom.fix = "valid"
buffer0(geom) ==
    CASE geom.fix = "split" -> Geometry("MultiPolygon", geom.rects)
      [] geom.fix = "vanish" -> EmptyGeometry
      [] OTHER -> geom
is_empty(geom) == geom.rects = <<>>
has_geoms(geom) ==
    geom.gtype \in {"MultiPolygon", "MultiLineString", "MultiPoint", "GeometryCollection"}

\* geometry.bounds
Bounds(geom) ==
    LET rs == geom.rects
        lo(f) == CHOOSE v \in {f[i] : i \in DOMAIN f} : \A i \in DOMAIN f : v <= f[i]
        hi(f) == CHOOSE v \in {f[i] : i \in DOMAIN f} : \A i \in DOMAIN f : f[i] <= v
    IN  [minx |-> lo([i \in DOMAIN rs |-> rs[i].x0]), miny |-> lo([i \in DOMAIN rs |-> rs[i].y0]),
         maxx |-> hi([i \in DOMAIN rs |-> rs[i].x1]), maxy |-> hi([i \in DOMAIN rs |-> rs[i].y1])]

\* The projections of tiling.py:30-31 between geographic fixed-point
\* coordinates and planar metres
LonOrigin == 107000
LatOrigin == 0 - 6530
to_meter(r) ==
    Rect((r.x0 - LonOrigin) \div 2, (r.y0 - LatOrigin) \div 2,
         (r.x1 - LonOrigin) \div 2, (r.y1 - LatOrigin) \div 2)
to_wgs84(r) ==
    Rect(LonOrigin + 2 * r.x0, LatOrigin + 2 * r.y0,
         LonOrigin + 2 * r.x1, LatOrigin + 2 * r.y1)
\* tiling.py:38, 75: shp_transform with the transformer to metres, to WGS 84
project_meter(geom) ==
    [geom EXCEPT !.rects = [i \in DOMAIN geom.rects |-> to_meter(geom.rects[i])]]
project_wgs84(geom) ==
    [geom EXCEPT !.rects = [i \in DOMAIN geom.rects |-> to_wgs84(geom.rects[i])]]

\* Twice the length-weighted first moments of segments about the point o
SegLength(r) == (r.x1 - r.x0) + (r.y1 - r.y0)
RECURSIVE SumLength(_)
SumLength(rects) == IF rects = <<>> THEN 0 ELSE SegLength(Head(rects)) + SumLength(Tail(rects))
RECURSIVE SumLineX(_, _)
SumLineX(rects, o) ==
    IF rects = <<>> THEN 0
    ELSE SegLength(Head(rects)) * (Head(rects).x0 + Head(rects).x1 - 2 * o)
            + SumLineX(Tail(rects), o)
RECURSIVE SumLineY(_, _)
SumLineY(rects, o) ==
    IF rects = <<>> THEN 0
    ELSE SegLength(Head(rects)) * (Head(rects).y0 + Head(rects).y1 - 2 * o)
            + SumLineY(Tail(rects), o)

\* geometry.centroid of a non-empty geometry, <<x, y>>: weighted by area, by
\* length when there is no area, else the point itself
geom_centroid(geom) ==
    LET rs == geom.rects
        a == SumArea(rs)
        l == SumLength(rs)
        ox == rs[1].x0
        oy == rs[1].y0
    IN  IF a > 0 THEN <<ox + SumMomentX(rs, ox) \div (2 * a), oy + SumMomentY(rs, oy) \div (2 * a)>>
        ELSE IF l > 0 THEN <<ox + SumLineX(rs, ox) \div (2 * l), oy + SumLineY(rs, oy) \div (2 * l)>>
        ELSE <<ox, oy>>

\* Every rectangle shares a piece of boundary with an earlier one
Connected(rects) ==
    \A i \in 2..Len(rects) : \E j \in 1..(i - 1) : SharesEdge(rects[i], rects[j])

\* tiling.py:63: cell.intersection(polygon).  What has area is a Polygon, or
\* a MultiPolygon when it falls apart; a cell that only touches the polygon
\* gives a Point, a LineString, or several of them: two pieces of boundary
\* that meet come as one LineString or as a MultiLineString, depending on
\* the geometry library (`merged`).
intersection(cell, polygon, merged) ==
    LET clipped == [i \in DOMAIN polygon.rects |-> Clip(cell, polygon.rects[i])]
        solid == SelectSeq(clipped, LAMBDA r : RectArea(r) > 0)
        thin == SelectSeq(clipped, LAMBDA r : HasPoints(r) /\ RectArea(r) = 0)
    IN  CASE solid # <<>> ->
                Geometry(IF Connected(solid) THEN "Polygon" ELSE "MultiPolygon", solid)
          [] solid = <<>> /\ thin = <<>> -> EmptyGeometry
          [] solid = <<>> /\ Len(thin) = 1 ->
                Geometry(IF IsPoint(thin[1]) THEN "Point" ELSE "LineString", thin)
          [] OTHER ->
                IF \A i \in DOMAIN thin : thin[i] = thin[1] /\ IsPoint(thin[i])
                THEN Geometry("Point", <<thin[1]>>)
                ELSE IF merged /\ \A i \in 2..Len(thin) : HasPoints(Clip(thin[i], thin[i - 1]))
                THEN Geometry("LineString", thin)
                ELSE Geometry("MultiLineString", thin)

\* tiling.py:69-73: the parts with area, and the largest of them (the first
\* of the largest)
candidates(geom) == SelectSeq(geom.rects, LAMBDA r : RectArea(r) > 0)
LargestPart(parts) ==
    LET k == CHOOSE i \in DOMAIN parts :
                /\ \A j \in DOMAIN parts : RectArea(parts[j]) <= RectArea(parts[i])
                /\ \A j \in 1..(i - 1) : RectArea(parts[j]) < RectArea(parts[i])
    IN  Geometry("Polygon", <<parts[k]>>)

\* tiling.py:63-73: the piece of the polygon in a cell; NoPiece for a cell
\* that gets a null centroid
NoPiece == [gtype |-> "none"]
tile_piece(cell, polygon, merged) ==
    LET tile_poly_meter == intersection(cell, polygon, merged)
    IN  IF is_empty(tile_poly_meter) THEN NoPiece
        ELSE IF tile_poly_meter.gtype # "Polygon" /\ has_geoms(tile_poly_meter)
        THEN IF candidates(tile_poly_meter) = <<>> THEN NoPiece
             ELSE LargestPart(candidates(tile_poly_meter))
        ELSE tile_poly_meter

\* Faulty variant of n_rows: the last, shorter row is left out.
n_rows_floor(bounds, tile_size_m) == Max2(1, (bounds.maxy - bounds.miny) \div tile_size_m)

\* tiling.py:43-44
n_cols(bounds, tile_size_m) == Max2(1, CeilDiv(bounds.maxx - bounds.minx, tile_size_m))
n_rows(bounds, tile_size_m) == Max2(1, CeilDiv(bounds.maxy - bounds.miny, tile_size_m))

\* tiling.py:52-62: the cell of (row, col), clipped to the bounding box
Cell(bounds, tile_size_m, row, col) ==
    Rect(bounds.minx + col * tile_size_m,
         bounds.miny + row * tile_size_m,
         Min2(bounds.minx + col * tile_size_m + tile_size_m, bounds.maxx),
         Min2(bounds.miny + row * tile_size_m + tile_size_m, bounds.maxy))

\* tiling.py:75-76: the piece in geographic coordinates and its centroid
\* (lat, lon)
PieceWgs84(piece) == project_wgs84(piece)
PieceCentroid(piece) ==
    <<Num(geom_centroid(PieceWgs84(piece))[2]), Num(geom_centroid(PieceWgs84(piece))[1])>>

\* Faulty variant of MatrixEntry: latitude and longitude change places.
MatrixEntry_swapped(piece) ==
    IF piece = NoPiece THEN Dict([lat |-> None, lon |-> None])
    ELSE Dict([lat |-> PieceCentroid(piece)[2], lon |-> PieceCentroid(piece)[1]])

\* tiling.py:65, 71, 78: the matrix entry of a cell
MatrixEntry(piece) ==
    IF piece = NoPiece THEN Dict([lat |-> None, lon |-> None])
    ELSE Dict([lat |-> PieceCentroid(piece)[1], lon |-> PieceCentroid(piece)[2]])

\* tiling.py:38-88: the matrix and the descriptors for a planar polygon, the
\* descriptors in the order of the loops (row by row, column by column)
tile_polygon(polygon_meter, tile_size_m, merged) ==
    LET bounds == Bounds(polygon_meter)
        rows == n_rows(bounds, tile_size_m)
        cols == n_cols(bounds, tile_size_m)
        piece(row, col) ==
            tile_piece(Cell(bounds, tile_size_m, row, col), polygon_meter, merged)
        raster == [k \in 1..(rows * cols) |->
                    [row |-> (k - 1) \div cols, col |-> (k - 1) % cols]]
        kept == SelectSeq(raster, LAMBDA rc : piece(rc.row, rc.col) # NoPiece)
    IN  [centroids_matrix |->
            [r \in 1..rows |-> [c \in 1..cols |-> MatrixEntry(piece(r - 1, c - 1))]],
         tiles |->
            [i \in DOMAIN kept |->
                [row |-> kept[i].row, col |-> kept[i].col,
                 polygon_wgs84 |-> PieceWgs84(piece(kept[i].row, kept[i].col)),
                 centroid |-> PieceCentroid(piece(kept[i].row, kept[i].col))]]]

\* The "coordinates" of a GeoJSON geometry, held as the geometry they describe
Coords(geom) == [t |-> "coords", geom |-> geom]

\* shapely's shape(): the geometry of a GeoJSON mapping; a mapping without
\* "coordinates" raises KeyError, a value that is no mapping has no .get
shape(geojson) ==
    IF ~IsDict(geojson) THEN Raise("AttributeError", "object has no attribute 'get'")
    ELSE IF ~HasKey(geojson, "coordinates") THEN Raise("KeyError", "'coordinates'")
    ELSE Returned(geojson.d["coordinates"].geom)

\* shapely's unary_union of geometries that do not overlap: one Polygon when
\* the parts hang together, else a MultiPolygon
RECURSIVE ConcatRects(_)
ConcatRects(geoms) ==
    IF geoms = <<>> THEN <<>> ELSE Head(geoms).rects \o ConcatRects(Tail(geoms))
unary_union(geoms) ==
    LET rects == ConcatRects(geoms)
    IN  Geometry(IF Connected(rects) THEN "Polygon" ELSE "MultiPolygon", rects)

\* tiling.py:115-130: the checks on the geometry found
polygon_of(found) ==
    LET geom == found
        polygons == SelectSeq(geom.rects, LAMBDA r : RectArea(r) > 0)
        merged == IF geom.gtype = "GeometryCollection" /\ polygons # <<>>
                  THEN unary_union(<<Geometry("Polygon", polygons)>>) ELSE geom
        largest == IF merged.gtype = "MultiPolygon"
                   THEN [LargestPart(merged.rects) EXCEPT !.fix = geom.fix] ELSE merged
    IN  IF is_empty(geom) THEN Raise("ValueError", "Polygon yang diberikan kosong.")
        ELSE IF geom.gtype = "GeometryCollection" /\ polygons = <<>>
        THEN Raise("ValueError", "GeometryCollection tidak mengandung Polygon.")
        ELSE IF largest.gtype # "Polygon"
        THEN Raise("ValueError", "GeoJSON harus berupa Polygon.")
        ELSE Returned(largest)

\* tiling.py:95-130
to_polygon(geojson) ==
    IF ~Truthy(geojson) THEN Raise("ValueError", "GeoJSON polygon tidak boleh kosong.")
    ELSE IF ~IsDict(geojson) THEN Raise("AttributeError", "object has no attribute 'get'")
    ELSE LET gtype == Get(geojson, "type", None)
         IN  IF gtype = Str("Feature")
             THEN LET geometry == Get(geojson, "geometry", None)
                  IN  IF ~Truthy(geometry)
                      THEN Raise("ValueError", "GeoJSON feature tidak memiliki geometry.")
                      ELSE IF shape(geometry).raised # "none" THEN shape(geometry)
                      ELSE polygon_of(shape(geometry).value)
             ELSE IF gtype = Str("FeatureCollection")
             THEN LET listed == Get(geojson, "features", None)
                      features == IF Truthy(listed) THEN listed.items ELSE <<>>
                      with == SelectSeq(features, LAMBDA f : Truthy(Get(f, "geometry", None)))
                      shapes == [i \in DOMAIN with |-> shape(with[i].d["geometry"])]
                  IN  IF \E i \in DOMAIN shapes : shapes[i].raised # "none"
                      THEN shapes[CHOOSE i \in DOMAIN shapes :
                                    /\ shapes[i].raised # "none"
                                    /\ \A j \in 1..(i - 1) : shapes[j].raised = "none"]
                      ELSE IF shapes = <<>>
                      THEN Raise("ValueError", "FeatureCollection tidak memiliki geometry polygon.")
                      ELSE polygon_of(unary_union([i \in DOMAIN shapes |-> shapes[i].value]))
             ELSE IF shape(geojson).raised # "none" THEN shape(geojson)
             ELSE polygon_of(shape(geojson).value)

\* tiling.py:33-88
PolygonTiler_tile(geojson, tile_size_m, merged) ==
    LET found == to_polygon(geojson)
    IN  IF found.raised # "none" THEN found
        ELSE LET polygon_wgs84 == IF is_valid(found.value) THEN found.value
                                  ELSE buffer0(found.value)
                 polygon_meter == project_meter(polygon_wgs84)
             IN  IF is_empty(polygon_meter)
                 THEN Raise("ValueError", "Polygon tidak valid untuk ditiling.")
                 ELSE Returned(tile_polygon(polygon_meter, tile_size_m, merged))

\* ---- the calls followed ----

\* Tile sizes in metres
TileSizes == {10, 15, 30, 100}

\* Side lengths of bounding boxes, in metres
Spans == {10, 30, 60, 10 * MaxSpan}

\* The planar corner (minx, miny) of the polygons
Corner == <<40, 70>>

\* A rectangle of w by h metres, less a notch of nw by nh metres at its far
\* corner: a rectangle or an L
LShape(w, h, nw, nh) ==
    IF nw = 0 \/ nh = 0
    THEN <<Rect(Corner[1], Corner[2], Corner[1] + w, Corner[2] + h)>>
    ELSE <<Rect(Corner[1], Corner[2], Corner[1] + w, Corner[2] + h - nh),
           Rect(Corner[1], Corner[2] + h - nh, Corner[1] + w - nw, Corner[2] + h)>>
LShapes ==
    { LShape(w, h, 0, 0) : w \in Spans, h \in Spans }
        \cup { LShape(d[1], d[2], d[3], d[4]) :
                d \in { e \in Spans \X Spans \X Spans \X Spans : e[3] < e[1] /\ e[4] < e[2] } }

\* Two lobes of a ring that runs back over itself: squares of ten metres,
\* h - 20 metres apart
Lobes(h) ==
    <<Rect(Corner[1], Corner[2], Corner[1] + 10, Corner[2] + 10),
      Rect(Corner[1], Corner[2] + h - 10, Corner[1] + 10, Corner[2] + h)>>

\* A geometry in geographic coordinates
Wgs84(gtype, rects, fix) == [project_wgs84(Geometry(gtype, rects)) EXCEPT !.fix = fix]

PolygonJson(geom) == Dict([type |-> Str(geom.gtype), coordinates |-> Coords(geom)])
FeatureJson(geometry) == Dict([type |-> Str("Feature"), geometry |-> geometry])
CollectionJson(geometries) ==
    Dict([type |-> Str("FeatureCollection"),
          features |-> List([i \in DOMAIN geometries |-> FeatureJson(geometries[i])])])

\* Valid polygons
ValidJsons == { PolygonJson(Wgs84("Polygon", rects, "valid")) : rects \in LShapes }

\* The other GeoJSON values: invalid rings, wrappers, other geometry types,
\* values that are no GeoJSON
OtherJsons ==
    { PolygonJson(Wgs84("Polygon", Lobes(h), "split")) : h \in Spans \ {10} }
        \cup { PolygonJson(Wgs84("Polygon", LShape(30, 30, 0, 0), "vanish")),
               PolygonJson(Wgs84("Polygon", <<>>, "valid")),
               PolygonJson(Wgs84("MultiPolygon", Lobes(60), "valid")),
               PolygonJson(Wgs84("Point", <<Rect(40, 70, 40, 70)>>, "valid")),
               PolygonJson(Wgs84("GeometryCollection",
                    <<Rect(40, 70, 40, 70), Rect(40, 70, 70, 100)>>, "valid")),
               PolygonJson(Wgs84("GeometryCollection", <<Rect(40, 70, 40, 70)>>, "valid")),
               FeatureJson(PolygonJson(Wgs84("Polygon", LShape(60, 30, 30, 10), "valid"))),
               FeatureJson(None),
               CollectionJson(<<PolygonJson(Wgs84("Polygon", LShape(30, 30, 0, 0), "valid")),
                                PolygonJson(Wgs84("Polygon",
                                    <<Rect(140, 70, 150, 80)>>, "valid"))>>),
               CollectionJson(<<None>>),
               CollectionJson(<<>>),
               Dict([type |-> Str("Polygon")]),
               Str("abc"), EmptyDict, None }

t_Init ==
    /\ t_pc = "call"
    /\ t_arg \in [geojson : ValidJsons \cup OtherJsons, tile_size_m : TileSizes,
                  merged : BOOLEAN]
    /\ t_ret = NoValue
    /\ request = NoValue
    /\ c_Off
    /\ p_Off
    /\ a_Off
    /\ s_Off
    /\ d_Off
    /\ e_Off
    /\ b_Off

\* tiling.py:33-88
t_Tile ==
    /\ t_pc = "call"
    /\ t_ret' = PolygonTiler_tile(t_arg.geojson, t_arg.tile_size_m, t_arg.merged)
    /\ t_pc' = "returned"
    /\ UNCHANGED <<t_arg, request, c_vars, p_vars, a_vars, s_vars, d_vars, e_vars, b_vars>>

NextTile == t_Tile

SpecTile == t_Init /\ [][NextTile]_vars

-----------------------------------------------------------------------------
(* SpecRequest: one process_area request, from its body on.                *)

\* A body that is no UTF-8 text, and one that is text but no JSON
NotUtf8 == [t |-> "bytes"]
NotJson == [t |-> "text"]

\* views.py:206-207: json.loads(request.body.decode("utf-8"))
json_loads(body) ==
    CASE body = NotUtf8 -> Raise("UnicodeDecodeError", "invalid start byte")
      [] body = NotJson -> Raise("JSONDecodeError", "Expecting value")
      [] OTHER -> Returned(body)

\* The strings that int() reads as a number
Numerals == [s \in {"30", "3"} |-> IF s = "30" THEN 30 ELSE 3]

\* views.py:218: int(tile_size_raw)
int_of(v) ==
    CASE v.t = "num" -> Returned(v.n)
      [] v.t = "str" -> IF v.s \in DOMAIN Numerals THEN Returned(Numerals[v.s])
                        ELSE Raise("ValueError", "invalid literal for int()")
      [] v.t = "nan" -> Raise("ValueError", "cannot convert float NaN to integer")
      [] v.t = "inf" -> Raise("OverflowError", "cannot convert float infinity to integer")
      [] OTHER -> Raise("TypeError", "int() argument must be a string or a number")

BadRequest(message) == [code |-> 400, status |-> "error", message |-> message]
ServerError == [code |-> 500]

\* views.py:205-223: the checks before the tiler is made; "accepted" with
\* the geometry and the tile size, or the response
check_request(body) ==
    LET loaded == json_loads(body)
        payload == loaded.value
        geometry == Get(payload, "geometry", None)
        tile_size == int_of(Get(payload, "tile_size", Num(15)))
    IN  IF loaded.raised = "JSONDecodeError" THEN BadRequest("Payload tidak valid")
        ELSE IF loaded.raised # "none" THEN ServerError
        ELSE IF ~IsDict(payload) THEN ServerError
        ELSE IF ~Truthy(geometry) THEN BadRequest("GeoJSON polygon wajib diisi.")
        ELSE IF tile_size.raised \in {"TypeError", "ValueError"}
        THEN BadRequest("Ukuran tile harus berupa angka.")
        ELSE IF tile_size.raised # "none" THEN ServerError
        ELSE IF tile_size.value < 5 \/ tile_size.value > 100
        THEN BadRequest("Ukuran tile harus antara 5 dan 100 meter.")
        ELSE [code |-> 0, geometry |-> geometry, tile_size |-> tile_size.value]

\* ---- the requests followed ----

RequestGeometries ==
    { PolygonJson(Wgs84("Polygon", LShape(30, 10, 0, 0), "valid")),
      PolygonJson(Wgs84("Polygon", LShape(20, 20, 10, 10), "valid")),
      PolygonJson(Wgs84("Polygon", Lobes(30), "split")),
      PolygonJson(Wgs84("Polygon", LShape(30, 30, 0, 0), "vanish")),
      PolygonJson(Wgs84("Point", <<Rect(40, 70, 40, 70)>>, "valid")),
      FeatureJson(None),
      Dict([type |-> Str("Polygon")]),
      Str("abc"), EmptyDict, None }

RequestTileSizes == { Num(10), Num(15), Num(3), Num(101), Str("30"), Str("abc"), None, Inf }

RequestBodies ==
    { NotUtf8, NotJson, EmptyList }
        \cup { Dict([geometry |-> g, tile_size |-> s]) :
                g \in RequestGeometries, s \in RequestTileSizes }
        \cup { Dict([geometry |-> g]) : g \in RequestGeometries }
        \cup { Dict([tile_size |-> s]) : s \in RequestTileSizes }

InitBody ==
    /\ pc = "check"
    /\ request \in [body : RequestBodies, merged : BOOLEAN]
    /\ gee_max_workers = 4
    /\ tile_geoms = <<>>
    /\ area = NoArea
    /\ task = <<>>
    /\ raising = <<>>
    /\ futures = <<>>
    /\ results = <<>>
    /\ tiles = <<>>
    /\ recommendations = NoValue
    /\ applied = 0
    /\ response = NoValue
    /\ c_Off
    /\ a_Off
    /\ t_Off
    /\ s_Off
    /\ db = NoRows
    /\ detail = NoValue
    /\ e_Off
    /\ b_Off

\* views.py:205-223
CheckRequest ==
    /\ pc = "check"
    /\ LET checked == check_request(request.body)
       IN  IF checked.code = 0
           THEN pc' = "tile" /\ UNCHANGED response
           ELSE pc' = "done" /\ response' = checked
    /\ UNCHANGED <<gee_max_workers, tile_geoms, area, task, raising, futures, results, tiles,
                   recommendations, applied, c_vars, a_vars, t_vars, s_vars, d_vars, request, e_vars, b_vars>>

\* views.py:224-229: the tiler is made and called; a ValueError is answered,
\* another exception is not caught
TileRequest ==
    /\ pc = "tile"
    /\ LET checked == check_request(request.body)
           tiled == PolygonTiler_tile(checked.geometry, checked.tile_size, request.merged)
       IN  CASE tiled.raised = "none" ->
                    /\ tile_geoms' = tiled.value.tiles
                    /\ pc' = "create"
                    /\ UNCHANGED response
             [] tiled.raised = "ValueError" ->
                    /\ response' = BadRequest(tiled.message)
                    /\ pc' = "done"
                    /\ UNCHANGED tile_geoms
             [] OTHER ->
                    /\ response' = ServerError
                    /\ pc' = "done"
                    /\ UNCHANGED tile_geoms
    /\ UNCHANGED <<gee_max_workers, area, task, raising, futures, results, tiles,
                   recommendations, applied, c_vars, a_vars, t_vars, s_vars, d_vars, request, e_vars, b_vars>>

NextRequest == CheckRequest \/ TileRequest \/ Next

SpecRequest == InitBody /\ [][NextRequest]_vars

-----------------------------------------------------------------------------
(* SpecPools: the two thread pools, each followed on its own: a request    *)
(* with its per-tile collect tasks, or one collect call with its provider  *)
(* calls.                                                                  *)

InitPools == Init \/ c_Init

NextPools == Next \/ NextCollect

SpecPools == InitPools /\ [][NextPools]_vars

\* The steps of the thread that serves process_area in which it submits,
\* takes a result or calls out, and the steps of the threads of its pool.
RequestThread ==
    \/ CreateArea \/ EnterCollect \/ SubmitTile \/ TakeResult
    \/ MarkCollected \/ RecommendReturn \/ RecommendRaise \/ SaveArea
TilePoolThreads == WorkerStart \/ WorkerReturn \/ WorkerRaise

\* The steps in which the request thread only computes, named by where
\* they lead: CreateTiles leaves "wait" once every task was taken, Apply
\* goes from "apply" to "save" and Respond from "summary" to "done".
RequestComputes ==
    \/ /\ pc = "wait"
       /\ \A i \in DOMAIN task : task[i] = "consumed"
       /\ pc' \in {"mark", "done"}
    \/ pc = "apply" /\ pc' = "save"
    \/ pc = "summary" /\ pc' = "done"

\* The thread of a collect call and the threads of its pool.
CollectThread == c_Submit \/ c_Store \/ c_Return
ProviderPoolThreads == c_Start \/ c_Finish

\* A thread that can take a step takes one in the end: the interpreter
\* schedules every runnable thread, and a call to a provider, to collect or
\* to Gemini returns or raises in finite time.
FairRequest ==
    /\ WF_vars(RequestThread)
    /\ WF_vars(TilePoolThreads)
    /\ WF_pc(RequestComputes)
FairCollect ==
    /\ WF_vars(CollectThread)
    /\ WF_vars(ProviderPoolThreads)

\* A request whose tiler returned three descriptors, valid or not, under
\* every setting of GEE_MAX_WORKERS
FairCells == {<<0, 0>>, <<0, 1>>, <<1, 0>>}
InitFair == InitRequest(DescriptorLists(FairCells), WorkerSettings)

SpecFair == InitFair /\ [][Next]_vars /\ FairRequest

SpecFairCollect == c_Init /\ [][NextCollect]_vars /\ FairCollect
-----------------------------------------------------------------------------
(* SpecInit: the threads of the worker pools of one process calling        *)
(* _ensure_initialized (src/api_documentation.py), each of them at the     *)
(* start of every provider call it runs.                                   *)

MaxInitThreads == 2
MaxInitCalls == 2

InitThreads == 1..MaxInitThreads

e_Init ==
    /\ e_pc = [t \in InitThreads |-> "idle"]
    /\ e_calls = [t \in InitThreads |-> 0]
    /\ e_flag = FALSE
    /\ e_inits = 0
    /\ c_Off
    /\ p_Off
    /\ a_Off
    /\ t_Off
    /\ s_Off
    /\ d_Off
    /\ b_Off
    /\ request = NoValue

\* api_documentation.py:156, 240, ...: a provider call enters the guard
e_Call(t) ==
    /\ e_pc[t] = "idle"
    /\ e_calls[t] < MaxInitCalls
    /\ e_calls' = [e_calls EXCEPT ![t] = @ + 1]
    /\ e_pc' = [e_pc EXCEPT ![t] = "check"]
    /\ UNCHANGED <<e_flag, e_inits>>

\* api_documentation.py:103-104: the flag is read; the call returns when it
\* is set
e_Check(t) ==
    /\ e_pc[t] = "check"
    /\ e_pc' = [e_pc EXCEPT ![t] = IF e_flag THEN "idle" ELSE "default"]
    /\ UNCHANGED <<e_calls, e_flag, e_inits>>

\* api_documentation.py:106: ee.Initialize() succeeds
e_DefaultOk(t) ==
    /\ e_pc[t] = "default"
    /\ e_inits' = e_inits + 1
    /\ e_pc' = [e_pc EXCEPT ![t] = "set"]
    /\ UNCHANGED <<e_calls, e_flag>>

\* api_documentation.py:106, 109-110: ee.Initialize() raises EEException
e_DefaultFails(t) ==
    /\ e_pc[t] = "default"
    /\ e_pc' = [e_pc EXCEPT ![t] = "credentials"]
    /\ UNCHANGED <<e_calls, e_flag, e_inits>>

\* api_documentation.py:112-127: ee.Initialize(credentials) succeeds
e_CredentialsOk(t) ==
    /\ e_pc[t] = "credentials"
    /\ e_inits' = e_inits + 1
    /\ e_pc' = [e_pc EXCEPT ![t] = "set"]
    /\ UNCHANGED <<e_calls, e_flag>>

\* api_documentation.py:118-127: no credential file, or the initialization
\* with the credentials raises: the call raises
e_Raise(t) ==
    /\ e_pc[t] = "credentials"
    /\ e_pc' = [e_pc EXCEPT ![t] = "idle"]
    /\ UNCHANGED <<e_calls, e_flag, e_inits>>

\* api_documentation.py:107-108, 128: the flag is set and the call returns
e_SetFlag(t) ==
    /\ e_pc[t] = "set"
    /\ e_flag' = TRUE
    /\ e_pc' = [e_pc EXCEPT ![t] = "idle"]
    /\ UNCHANGED <<e_calls, e_inits>>

NextInit ==
    /\ \E t \in InitThreads :
        \/ e_Call(t) \/ e_Check(t) \/ e_DefaultOk(t) \/ e_DefaultFails(t)
        \/ e_CredentialsOk(t) \/ e_Raise(t) \/ e_SetFlag(t)
    /\ UNCHANGED <<c_vars, p_vars, a_vars, t_vars, s_vars, d_vars, request, b_vars>>

SpecInit == e_Init /\ [][NextInit]_vars
-----------------------------------------------------------------------------
(* SpecBounds: compute_bounds (services/hyperlocal.py) is called with a    *)
(* geometry, a centroid matrix and a tile list. A coordinate is a pair     *)
(* <<lon, lat>>; a geometry is a record with its GeoJSON "type".           *)

NoGeometry == [type |-> "none"]                 \* None or {}
Polygon(rings) == [type |-> "Polygon", coordinates |-> rings]
MultiPolygon(polygons) == [type |-> "MultiPolygon", coordinates |-> polygons]
Feature(geometry) == [type |-> "Feature", geometry |-> geometry]
FeatureCollection(features) == [type |-> "FeatureCollection", features |-> features]
Point(coordinate) == [type |-> "Point", coordinates |-> coordinate]

RECURSIVE Flatten(_)
Flatten(seqs) == IF seqs = <<>> THEN <<>> ELSE Head(seqs) \o Flatten(Tail(seqs))

\* What iterating a generator gives: the items it yielded, and whether it
\* ended by raising ValueError.
Yields(coords) == [raised |-> FALSE, coords |-> coords]
RaisesValueError == [raised |-> TRUE, coords |-> <<>>]

\* hyperlocal.py:30-59. The function is a generator: the return of line 37
\* ends it without an item, whatever the generator it was given holds.
RECURSIVE iter_coordinates(_)
RECURSIVE iter_features(_)
iter_coordinates(geometry) ==
    CASE geometry.type = "none" -> Yields(<<>>)
      [] geometry.type = "Feature" -> Yields(<<>>)
      [] geometry.type = "FeatureCollection" -> iter_features(geometry.features)
      [] geometry.type = "Polygon" -> Yields(Flatten(geometry.coordinates))
      [] geometry.type = "MultiPolygon" -> Yields(Flatten(Flatten(geometry.coordinates)))
      [] OTHER -> RaisesValueError

\* hyperlocal.py:39-44: the geometry of a feature that is a dict, else the
\* feature itself; yield from passes on the items and the exception
iter_features(features) ==
    IF features = <<>> THEN Yields(<<>>)
    ELSE LET feature == Head(features)
             inner == IF "geometry" \in DOMAIN feature THEN feature.geometry
                      ELSE NoGeometry
             first == iter_coordinates(inner)
             rest == iter_features(Tail(features))
         IN  IF first.raised THEN first
             ELSE [raised |-> rest.raised, coords |-> first.coords \o rest.coords]

\* hyperlocal.py:20-27, 67-75
max_of(S) == CHOOSE v \in S : \A u \in S : u <= v
min_of(S) == CHOOSE v \in S : \A u \in S : v <= u
bounds_from_coords(coords) ==
    IF coords = <<>> THEN None
    ELSE LET lons == {coords[i][1] : i \in DOMAIN coords}
             lats == {coords[i][2] : i \in DOMAIN coords}
             north == max_of(lats)
             south == min_of(lats)
             east == max_of(lons)
             west == min_of(lons)
         IN  [north |-> Num(north), south |-> Num(south),
              east |-> Num(east), west |-> Num(west),
              center_lat |-> Quotient(north + south, 2),
              center_lon |-> Quotient(east + west, 2)]

\* hyperlocal.py:82-91: a cell that is no dict, or lacks lat or lon, is skipped
cell_coords(cell) ==
    IF ~IsDict(cell) THEN <<>>
    ELSE IF Get(cell, "lat", None) = None \/ Get(cell, "lon", None) = None THEN <<>>
    ELSE << <<cell.d.lon.n, cell.d.lat.n>> >>

\* hyperlocal.py:78-93
bounds_from_matrix(matrix) ==
    IF ~Truthy(matrix) THEN None
    ELSE LET rows == matrix.items
         IN  bounds_from_coords(Flatten(
                [r \in DOMAIN rows |->
                    Flatten([c \in DOMAIN rows[r] |-> cell_coords(rows[r][c])])]))

\* hyperlocal.py:104-136: the centroid of a tile dict, then the coordinates
\* its geometry yields; extend keeps what was yielded before a ValueError
tile_coords(tile) ==
    LET lat == Get(tile, "centroid_lat", None)
        lon == Get(tile, "centroid_lon", None)
        geometry == IF HasKey(tile, "geometry") THEN tile.d.geometry ELSE NoGeometry
    IN  (IF lat # None /\ lon # None THEN << <<lon.n, lat.n>> >> ELSE <<>>)
        \o iter_coordinates(geometry).coords

\* hyperlocal.py:96-138
bounds_from_tiles(tile_list) ==
    IF ~Truthy(tile_list) THEN None
    ELSE bounds_from_coords(Flatten(
            [i \in DOMAIN tile_list.items |-> tile_coords(tile_list.items[i])]))

\* hyperlocal.py:141-159
compute_bounds(geometry, matrix, tile_list) ==
    LET own == IF geometry.type = "none" THEN None
               ELSE LET coords == iter_coordinates(geometry)
                    IN  IF coords.raised THEN None
                        ELSE bounds_from_coords(coords.coords)
        second == IF own = None THEN bounds_from_matrix(matrix) ELSE own
    IN  IF second = None THEN bounds_from_tiles(tile_list) ELSE second

\* The geometries, matrices and tile lists of the calls followed
RingA == << <<107, -7>>, <<108, -7>>, <<108, -6>>, <<107, -7>> >>
RingB == << <<109, -9>>, <<110, -9>>, <<110, -8>>, <<109, -9>> >>
BoundsGeometries ==
    { NoGeometry,
      Polygon(<<RingA>>),
      Polygon(<<>>),
      MultiPolygon(<< <<RingA>>, <<RingB>> >>),
      Feature(Polygon(<<RingA>>)),
      Feature(MultiPolygon(<< <<RingA>>, <<RingB>> >>)),
      Feature(NoGeometry),
      FeatureCollection(<<Feature(Polygon(<<RingA>>)), Feature(Polygon(<<RingB>>))>>),
      FeatureCollection(<<Feature(Polygon(<<>>)), Feature(Polygon(<<RingB>>))>>),
      FeatureCollection(<<>>),
      FeatureCollection(<<Feature(Polygon(<<RingA>>)), Feature(Point(<<107, -7>>))>>),
      Point(<<107, -7>>) }
MatrixCell(lat, lon) == Dict([lat |-> lat, lon |-> lon])
BoundsMatrices ==
    { None,
      EmptyList,
      List(<< <<None, None>> >>),
      List(<< <<MatrixCell(Num(1), None)>> >>),
      List(<< <<MatrixCell(Num(1), Num(2)), None>>, <<None, MatrixCell(Num(3), Num(5))>> >>) }
BoundsTile(lat, lon, geometry) ==
    Dict([centroid_lat |-> lat, centroid_lon |-> lon, geometry |-> geometry])
BoundsTileLists ==
    { None,
      EmptyList,
      List(<<BoundsTile(None, None, NoGeometry)>>),
      List(<<BoundsTile(Num(20), Num(30), NoGeometry)>>),
      List(<<BoundsTile(Num(20), Num(30), Polygon(<<RingB>>)),
             BoundsTile(None, Num(31), Point(<<0, 0>>))>>) }

b_Init ==
    /\ b_pc = "call"
    /\ b_arg \in [geometry : BoundsGeometries, matrix : BoundsMatrices,
                  tiles : BoundsTileLists]
    /\ b_ret = NoValue
    /\ c_Off
    /\ p_Off
    /\ a_Off
    /\ t_Off
    /\ s_Off
    /\ d_Off
    /\ e_Off
    /\ request = NoValue

\* compute_bounds(geometry, matrix, tiles) returns
b_Compute ==
    /\ b_pc = "call"
    /\ b_ret' = compute_bounds(b_arg.geometry, b_arg.matrix, b_arg.tiles)
    /\ b_pc' = "returned"
    /\ UNCHANGED <<b_arg, c_vars, p_vars, a_vars, t_vars, s_vars, d_vars, request, e_vars>>

NextBounds == b_Compute

SpecBounds == b_Init /\ [][NextBounds]_vars
-----------------------------------------------------------------------------
(* SpecProduced: build_summary on the tiles that _collect_variables and    *)
(* _apply_recommendations produce.                                         *)

MaxProducedTiles == 2

\* The six calls of one collect: landcover and seasonal, the providers
\* build_summary reads, end in any way; the others return their payload.
ProducedCalls(landcover, seasonal, lat, lon) ==
    [name \in ProviderNames |->
        CASE name = "landcover" -> landcover
          [] name = "seasonal" -> seasonal
          [] OTHER -> CallReturn(OkPayload(name, lat, lon))]

\* views.py:655-674: the variables of a tile are what its collect returned,
\* made JSON safe, or the error record of a collect task that raised.
ProducedVariables(lat, lon) ==
    { make_json_safe(collect(ProducedCalls(landcover, seasonal, lat, lon))) :
        landcover \in CallOutcomes("landcover", lat, lon),
        seasonal \in CallOutcomes("seasonal", lat, lon) }
    \cup { ErrorRecord(UnexpectedMessage) }

\* The lists Gemini names for a tile: a full entry, one without a
\* confidence, one without a plant, none
ProducedRecLists ==
    { List(<<Rec("Rice", Quotient(9, 10))>>),
      List(<<Dict([plant |-> Str("Rice"), rationale |-> Str("-")])>>),
      List(<<Dict([confidence |-> Quotient(9, 10), rationale |-> Str("-")])>>),
      EmptyList }

\* views.py:676-689: the tiles of the first n cells of a row
ProducedRow(n, variables) ==
    create_tiles([i \in 1..n |->
        [tile_geom |-> TileGeometry(0, i - 1, Centroid(0, i - 1)),
         variables |-> variables[i]]])

\* The payload that names the list for every tile
ProducedPayload(ts, list) ==
    Dict([tiles |-> List([i \in DOMAIN ts |->
            Dict([tile_id |-> Str(tile_key(ts[i])), recommendations |-> list])])])

\* views.py:242-262: the tiles as _apply_recommendations leaves them
ProducedTiles ==
    UNION { { apply_recommendations(ProducedRow(n, variables),
                    ProducedPayload(ProducedRow(n, variables), list)).tiles :
                variables \in [1..n -> ProducedVariables(Num(-7), Num(107))],
                list \in ProducedRecLists } :
            n \in 1..MaxProducedTiles }

s_InitProduced ==
    /\ s_pc = "call"
    /\ s_area \in SummaryAreas
    /\ s_tiles \in ProducedTiles
    /\ s_ret = NoValue
    /\ s_again = NoValue
    /\ c_Off
    /\ p_Off
    /\ a_Off
    /\ t_Off
    /\ d_Off
    /\ e_Off
    /\ b_Off
    /\ request = NoValue

SpecProduced == s_InitProduced /\ [][NextSummary]_vars
-----------------------------------------------------------------------------
(* Claims about collect and safe_call, checked under SpecCollect.          *)

IsErrorRecord(v) ==
    /\ IsDict(v)
    /\ DOMAIN v.d = {"status", "message"}
    /\ v.d["status"] = Str("error")

\* A response that is not a map with a status field
Malformed(v) == ~HasKey(v, "status")

\* C1: whatever the six provider calls do (return or raise), collect returns
\* a map whose keys are exactly the six provider names; the entry of a
\* provider is what its call returned, or the error record
\* {status: "error", message: str(exc)} of the exception it raised.
C1_CollectShape ==
    c_pc = "returned" =>
        /\ IsDict(c_ret)
        /\ DOMAIN c_ret.d = ProviderNames
        /\ \A name \in ProviderNames :
            IF c_call[name].kind = "raise"
            THEN c_ret.d[name] = ErrorRecord(c_call[name].msg)
            ELSE c_ret.d[name] = c_call[name].val

\* C1 witness: collect has returned although every provider call raised.
C1_Witness ==
    /\ c_pc = "returned"
    /\ \A name \in ProviderNames : c_call[name].kind = "raise"

\* C4 (as claimed): every failed provider call, an exception as well as a
\* malformed response, is stored under the provider's name as the error
\* record {status: "error", message}.
C4_FailureBecomesErrorRecord ==
    c_pc = "returned" =>
        \A name \in ProviderNames :
            (c_call[name].kind = "raise" \/ Malformed(c_call[name].val))
                => IsErrorRecord(c_ret.d[name])


-----------------------------------------------------------------------------
(* Claims about _collect_variables, checked under Spec and SpecFn.         *)

\* _collect_variables has created its tiles
Collected == pc \in {"mark", "recommend", "apply", "save", "summary", "done"}

\* The tiles created for a descriptor
TilesOf(tile_geom) ==
    {k \in DOMAIN tiles :
        tiles[k].row_index = tile_geom.row /\ tiles[k].col_index = tile_geom.col}
TileOf(tile_geom) == tiles[CHOOSE k \in TilesOf(tile_geom) : TRUE]

HasNullCentroid(tile_geom) ==
    tile_geom.centroid[1] = None \/ tile_geom.centroid[2] = None

\* The tiles are the descriptors with a centroid, one tile each.
OneTilePerCentroid ==
    /\ \A i \in DOMAIN tile_geoms :
        Cardinality(TilesOf(tile_geoms[i])) =
            IF HasNullCentroid(tile_geoms[i]) THEN 0 ELSE 1
    /\ Len(tiles) = Cardinality({i \in DOMAIN tile_geoms : ~HasNullCentroid(tile_geoms[i])})

FailedCalls == {<<i, name>> \in (DOMAIN raising) \X ProviderNames : name \in raising[i]}

\* Exactly one provider call of one tile raised and every collect task returned
OneProviderFailure ==
    /\ Cardinality(FailedCalls) = 1
    /\ \A i \in DOMAIN futures : futures[i].kind = "value"

C5_AscendingRowCol ==
    \A i, j \in DOMAIN tiles :
        i < j =>
            \/ tiles[i].row_index < tiles[j].row_index
            \/ /\ tiles[i].row_index = tiles[j].row_index
               /\ tiles[i].col_index < tiles[j].col_index

\* C5 witness: the tiles were created from three results that completed in
\* descending order of (row, col).
C5_Witness ==
    /\ pc = "mark"
    /\ Len(tiles) = 3
    /\ Len(results) = 3
    /\ \A i, j \in DOMAIN results :
        i < j => KeyBefore(results[j].tile_geom, results[i].tile_geom)

-----------------------------------------------------------------------------
(* Claims about _apply_recommendations (SpecApply) and the enrichment      *)
(* block of process_area (Spec).                                           *)

\* The payload entries that name the tile: "tiles" is a list of maps
EntriesOf(payload) ==
    IF HasKey(payload, "tiles") /\ IsList(payload.d["tiles"])
    THEN payload.d["tiles"].items ELSE <<>>
HitsOf(payload, tile) ==
    {e \in DOMAIN EntriesOf(payload) :
        /\ HasKey(EntriesOf(payload)[e], "tile_id")
        /\ EntriesOf(payload)[e].d["tile_id"] =
                Str(ToString(tile.row_index) \o "-" \o ToString(tile.col_index))}

\* A payload as the prompt asks for it: a list of maps under "tiles", no
\* tile named twice, every entry with a list of recommendations
WellFormed(payload) ==
    /\ HasKey(payload, "tiles")
    /\ IsList(payload.d["tiles"])
    /\ \A e \in DOMAIN EntriesOf(payload) :
        /\ HasKey(EntriesOf(payload)[e], "tile_id")
        /\ HasKey(EntriesOf(payload)[e], "recommendations")
        /\ IsList(EntriesOf(payload)[e].d["recommendations"])
        /\ \A f \in DOMAIN EntriesOf(payload) :
            EntriesOf(payload)[e].d["tile_id"] = EntriesOf(payload)[f].d["tile_id"] => e = f

\* C7 (as claimed), for the payloads the prompt asks for: a tile whose key
\* is found in the payload gets the payload's recommendation list for that
\* key and is marked "enriched"; a tile whose key is absent gets an empty
\* list and keeps the status "collected" it had.
C7_FoundIsEnriched ==
    (a_pc = "again" /\ WellFormed(a_payload)) =>
        \A k \in DOMAIN a_tiles :
            LET hits == HitsOf(a_payload, a_tiles[k])
            IN  IF hits # {}
                THEN /\ \E e \in hits : a_tiles[k].gemini_recommendations =
                                            EntriesOf(a_payload)[e].d["recommendations"]
                     /\ a_tiles[k].status = "enriched"
                ELSE /\ a_tiles[k].gemini_recommendations = EmptyList
                     /\ a_tiles[k].status = "collected"

\* The list the payload gives a tile: that of the last entry naming it, an
\* empty list when no entry names it or the entry has none
ListFor(payload, tile) ==
    LET hits == HitsOf(payload, tile)
    IN  IF hits = {} THEN EmptyList
        ELSE LET last == EntriesOf(payload)[CHOOSE e \in hits : \A f \in hits : f <= e]
             IN  IF HasKey(last, "recommendations") THEN last.d["recommendations"]
                 ELSE EmptyList

\* C7 (amended): _apply_recommendations gives every tile it assigns the
\* list of the last payload entry with the tile's key "{row}-{col}", in the
\* payload's order (an empty list when no entry has the key), and marks the
\* tile "enriched" only when that list is not empty; otherwise the tile
\* keeps the status "collected".  It assigns every tile unless it raises (a
\* grouping of another shape, or a null list, which cannot be saved); the
\* tiles behind the point where it raised are as collected.
C7_NonEmptyIsEnriched ==
    a_pc = "again" =>
        /\ ~a_first.raised => a_first.applied = Len(a_tiles)
        /\ (a_first.raised /\ a_first.applied > 0) =>
                ListFor(a_payload, a_tiles[a_first.applied]) = None
        /\ \A k \in DOMAIN a_tiles :
            IF k <= a_first.applied
            THEN /\ a_tiles[k].gemini_recommendations = ListFor(a_payload, a_tiles[k])
                 /\ a_tiles[k].status =
                        IF /\ IsList(ListFor(a_payload, a_tiles[k]))
                           /\ ListFor(a_payload, a_tiles[k]) # EmptyList
                        THEN "enriched" ELSE "collected"
            ELSE /\ a_tiles[k].gemini_recommendations = EmptyList
                 /\ a_tiles[k].status = "collected"

\* C7 witness: one call has given a tile a list of two recommendations and
\* marked it, given another tile an empty list found under its key, and
\* left a third tile, absent from the payload, with an empty list.
C7_Witness ==
    /\ a_pc = "again"
    /\ ~a_first.raised
    /\ \E k \in DOMAIN a_tiles :
        /\ HitsOf(a_payload, a_tiles[k]) # {}
        /\ a_tiles[k].gemini_recommendations = List(<<RecPadi, RecJagung>>)
        /\ a_tiles[k].status = "enriched"
    /\ \E k \in DOMAIN a_tiles :
        /\ HitsOf(a_payload, a_tiles[k]) # {}
        /\ a_tiles[k].gemini_recommendations = EmptyList
        /\ a_tiles[k].status = "collected"
    /\ \E k \in DOMAIN a_tiles : HitsOf(a_payload, a_tiles[k]) = {}

\* C8: a second _apply_recommendations with the same payload leaves every
\* tile with the recommendations and the status the first call gave it.
C8_SecondCallChangesNothing ==
    a_pc = "done" =>
        /\ Len(a_tiles) = Len(a_first.tiles)
        /\ \A k \in DOMAIN a_tiles :
            /\ a_tiles[k].gemini_recommendations = a_first.tiles[k].gemini_recommendations
            /\ a_tiles[k].status = a_first.tiles[k].status

\* C8 witness: the second call has returned, the first having given a tile
\* a non-empty list.
C8_Witness ==
    /\ a_pc = "done"
    /\ ~a_first.raised
    /\ \E k \in DOMAIN a_tiles :
        /\ a_first.tiles[k].status = "enriched"
        /\ a_tiles[k].gemini_recommendations = List(<<RecPadi, RecJagung>>)

\* A map whose "tiles" is missing or has another shape than a list of maps
MalformedPayload(payload) ==
    /\ IsDict(payload)
    /\ \/ ~HasKey(payload, "tiles")
       \/ ~IsList(payload.d["tiles"])
       \/ \E e \in DOMAIN payload.d["tiles"].items : ~IsDict(payload.d["tiles"].items[e])

\* C9 (as claimed): when the enrichment payload is a map whose "tiles" is
\* missing or of another shape, every tile has an empty recommendation list
\* and the status "collected", the Area is not failed and the request
\* answers.
C9_MalformedPayloadRecovered ==
    (pc = "done" /\ MalformedPayload(recommendations)) =>
        /\ \A k \in DOMAIN tiles :
            /\ tiles[k].gemini_recommendations = EmptyList
            /\ tiles[k].status = "collected"
        /\ area.status # "failed"
        /\ response.code = 200

\* C10: when the enrichment call fails, the Area is "failed" from then on
\* with the reason in its metadata, every tile keeps the variables of its
\* collect, an empty recommendation list and the status "collected", and
\* the request answers with the area and the tiles.
C10_EnrichmentFailureKeepsTiles ==
    recommendations = Raised =>
        /\ pc \in {"save", "summary", "done"}
        /\ area.status = "failed"
        /\ area.metadata = Dict([gemini_error |-> Str(GeminiMessage)])
        /\ Len(tiles) = Len(futures)
        /\ \A i \in DOMAIN futures :
            LET tile == TileOf(valid_tiles(tile_geoms)[i])
            IN  /\ tile.variables = IF futures[i].kind = "exception"
                                    THEN ErrorRecord(futures[i].msg) ELSE futures[i].val
                /\ tile.gemini_recommendations = EmptyList
                /\ tile.status = "collected"
        /\ pc = "done" =>
            /\ response.code = 200
            /\ response.area.status = "failed"
            /\ Len(response.tiles) = Len(tiles)
            /\ \A k \in DOMAIN tiles :
                /\ response.tiles[k].variables = tiles[k].variables
                /\ response.tiles[k].status = "collected"

\* C10 witness: the request has answered after the enrichment call failed,
\* three tiles having been collected.
C10_Witness ==
    /\ pc = "done"
    /\ recommendations = Raised
    /\ Len(tiles) = 3

\* The Area the request left: the one it committed
AreaLeft == db.committed.area

Untouched(tile) ==
    /\ ~Truthy(tile.gemini_recommendations)
    /\ tile.status # "enriched"

\* C11: whenever the request leaves the Area "failed", no tile has received
\* recommendations: no tile, as stored or as answered, holds a non-empty
\* list and no tile is "enriched", whether recommend failed or applying
\* its payload did.
C11_FailedAreaHasNoRecommendations ==
    (pc = "done" /\ AreaLeft.status = "failed") =>
        /\ response.code = 200 =>
                \A k \in DOMAIN tiles : Untouched(tiles[k])
        /\ \A k \in DOMAIN db.committed.tiles : Untouched(db.committed.tiles[k])

\* C11 witness: the payload named a list for a tile but could not be
\* applied; the Area was committed "failed" with its three tiles.
C11_Witness ==
    /\ pc = "done"
    /\ AreaLeft.status = "failed"
    /\ recommendations \notin {NoValue, Raised}
    /\ Len(db.committed.tiles) = 3
    /\ response.code = 200

\* When a save raised while the payload was applied, the request leaves no
\* Area at all and is answered by the error page.
C11_SaveFailureRollsBack ==
    (pc = "done" /\ applied > 0 /\ applied <= Len(tiles)
        /\ tiles[applied].gemini_recommendations = None) =>
        /\ db = NoRows
        /\ response = [code |-> 500]

-----------------------------------------------------------------------------
(* Claims about the checks of process_area (SpecRequest) and about the     *)
(* tiler (SpecTile).                                                       *)

\* The request is one of those to be rejected: its body is no JSON, it has
\* no geometry, its tile size is no integer or lies outside 5..100, or the
\* tiler raises on its geometry
ToBeRejected ==
    LET body == request.body
        geometry == Get(body, "geometry", None)
        raw == Get(body, "tile_size", Num(15))
    IN  \/ body = NotJson
        \/ /\ IsDict(body)
           /\ \/ ~Truthy(geometry)
              \/ int_of(raw).raised # "none"
              \/ int_of(raw).value < 5
              \/ int_of(raw).value > 100
              \/ PolygonTiler_tile(geometry, int_of(raw).value, request.merged).raised # "none"

\* C12 (as claimed): a request to be rejected is answered with HTTP 400 and
\* a reason, no Area or Tile having been created and no provider or
\* enrichment call made.
C12_RejectedWith400 ==
    (pc = "done" /\ ToBeRejected) =>
        /\ response.code = 400
        /\ response.message # ""
        /\ area = NoArea
        /\ tiles = <<>>
        /\ futures = <<>>
        /\ recommendations = NoValue

\* The call of the tiler has returned a matrix and descriptors
Tiled == t_pc = "returned" /\ t_ret.raised = "none"

\* The planar polygon the tiler cuts up, and its bounding box
PlanarPolygon ==
    LET found == to_polygon(t_arg.geojson).value
    IN  project_meter(IF is_valid(found) THEN found ELSE buffer0(found))
PlanarXs == UNION {{PlanarPolygon.rects[i].x0, PlanarPolygon.rects[i].x1} :
                        i \in DOMAIN PlanarPolygon.rects}
PlanarYs == UNION {{PlanarPolygon.rects[i].y0, PlanarPolygon.rects[i].y1} :
                        i \in DOMAIN PlanarPolygon.rects}
Least(S) == CHOOSE v \in S : \A u \in S : v <= u
Greatest(S) == CHOOSE v \in S : \A u \in S : u <= v
PlanarWidth == Greatest(PlanarXs) - Least(PlanarXs)
PlanarHeight == Greatest(PlanarYs) - Least(PlanarYs)

\* max(1, ceil(length / size)): the least count, at least one, of pieces of
\* that size that cover the length
CoverCount(length, size) ==
    CHOOSE n \in 1..(length + 1) : n * size >= length /\ (n = 1 \/ (n - 1) * size < length)

\* The planar cell of (row, col), clipped to the bounding box
ClippedCell(row, col) ==
    LET x == Least(PlanarXs) + col * t_arg.tile_size_m
        y == Least(PlanarYs) + row * t_arg.tile_size_m
    IN  Rect(x, y,
             IF x + t_arg.tile_size_m < Greatest(PlanarXs)
             THEN x + t_arg.tile_size_m ELSE Greatest(PlanarXs),
             IF y + t_arg.tile_size_m < Greatest(PlanarYs)
             THEN y + t_arg.tile_size_m ELSE Greatest(PlanarYs))

\* C13: the matrix has max(1, ceil(height / cellSize)) rows of
\* max(1, ceil(width / cellSize)) entries each, height and width being
\* those of the polygon's planar bounding box; the piece of every
\* descriptor lies in its cell clipped to the bounding box, and for a
\* rectangle it is that clipped cell.
C13_MatrixShape ==
    Tiled =>
        /\ Len(t_ret.value.centroids_matrix) = CoverCount(PlanarHeight, t_arg.tile_size_m)
        /\ \A r \in DOMAIN t_ret.value.centroids_matrix :
            Len(t_ret.value.centroids_matrix[r]) = CoverCount(PlanarWidth, t_arg.tile_size_m)
        /\ \A i \in DOMAIN t_ret.value.tiles :
            LET d == t_ret.value.tiles[i]
                cell == ClippedCell(d.row, d.col)
                piece == project_meter(d.polygon_wgs84).rects
            IN  /\ \A k \in DOMAIN piece :
                    /\ cell.x0 <= piece[k].x0 /\ piece[k].x1 <= cell.x1
                    /\ cell.y0 <= piece[k].y0 /\ piece[k].y1 <= cell.y1
                /\ Len(PlanarPolygon.rects) = 1 => piece = <<cell>>

\* C13 witness: a square of 100 m by 100 m tiled at 30 m has given a matrix
\* of 4 by 4 and 16 descriptors, the last of them a piece of 10 m by 10 m.
C13_Witness ==
    /\ Tiled
    /\ t_arg.tile_size_m = 30
    /\ Len(PlanarPolygon.rects) = 1
    /\ PlanarWidth = 100 /\ PlanarHeight = 100
    /\ Len(t_ret.value.centroids_matrix) = 4
    /\ Len(t_ret.value.centroids_matrix[4]) = 4
    /\ Len(t_ret.value.tiles) = 16
    /\ LET last == project_meter(t_ret.value.tiles[16].polygon_wgs84).rects[1]
       IN  last.x1 - last.x0 = 10 /\ last.y1 - last.y0 = 10

NullEntry == Dict([lat |-> None, lon |-> None])

\* C14: a matrix cell holds a null centroid exactly when no descriptor has
\* its (row, col), and it does when the cell has no point in common with
\* the polygon; every descriptor has a non-null centroid, the one its matrix
\* cell holds; the descriptors are in row-major order.
C14_NullIffNoDescriptor ==
    Tiled =>
        LET matrix == t_ret.value.centroids_matrix
            ds == t_ret.value.tiles
        IN  /\ \A r \in DOMAIN matrix : \A c \in DOMAIN matrix[r] :
                /\ (matrix[r][c] = NullEntry) <=>
                        ~\E i \in DOMAIN ds : ds[i].row = r - 1 /\ ds[i].col = c - 1
                /\ (matrix[r][c].d["lat"] = None) <=> (matrix[r][c].d["lon"] = None)
                /\ (\A k \in DOMAIN PlanarPolygon.rects :
                        ~HasPoints(Clip(ClippedCell(r - 1, c - 1), PlanarPolygon.rects[k])))
                        => matrix[r][c] = NullEntry
            /\ \A i \in DOMAIN ds :
                /\ ds[i].centroid[1] # None /\ ds[i].centroid[2] # None
                /\ ds[i].row + 1 \in DOMAIN matrix
                /\ ds[i].col + 1 \in DOMAIN matrix[ds[i].row + 1]
                /\ matrix[ds[i].row + 1][ds[i].col + 1] =
                        Dict([lat |-> ds[i].centroid[1], lon |-> ds[i].centroid[2]])
            /\ \A i, j \in DOMAIN ds :
                i < j => \/ ds[i].row < ds[j].row
                         \/ ds[i].row = ds[j].row /\ ds[i].col < ds[j].col

\* C14 witness: an L has been tiled into a matrix with a null centroid in
\* its last row and descriptors in two rows.
C14_Witness ==
    /\ Tiled
    /\ Len(PlanarPolygon.rects) = 2
    /\ \E c \in DOMAIN t_ret.value.centroids_matrix[Len(t_ret.value.centroids_matrix)] :
        t_ret.value.centroids_matrix[Len(t_ret.value.centroids_matrix)][c] = NullEntry
    /\ \E i, j \in DOMAIN t_ret.value.tiles :
        t_ret.value.tiles[i].row # t_ret.value.tiles[j].row

\* C15 (as claimed): the (row, col) pairs of the tiles of an Area are
\* pairwise distinct, and the row indices among them, like the column
\* indices, are 0..R-1 and 0..C-1 for some R and C.
C15_IndicesContiguous ==
    LET rows == {tiles[k].row_index : k \in DOMAIN tiles}
        cols == {tiles[k].col_index : k \in DOMAIN tiles}
    IN  /\ \A k, l \in DOMAIN tiles :
            (tiles[k].row_index = tiles[l].row_index
                /\ tiles[k].col_index = tiles[l].col_index) => k = l
        /\ \A r \in rows : r = 0 \/ r - 1 \in rows
        /\ \A c \in cols : c = 0 \/ c - 1 \in cols

-----------------------------------------------------------------------------
(* The summary of an Area.                                                  *)

\* The first call of build_summary has returned
Summarized == s_pc # "call" /\ s_ret.raised = "none"

\* The tiles whose list of recommendations is not empty, and the category
\* of the first-ranked recommendation of such a tile
Recommended == {k \in DOMAIN s_tiles :
                    s_tiles[k].gemini_recommendations \notin {None, EmptyList}}
FirstRanked(k) == s_tiles[k].gemini_recommendations.items[1].d["plant"]
TilesLedBy(plant) == {k \in Recommended : FirstRanked(k) = plant}
FirstSeen(plant) == CHOOSE k \in TilesLedBy(plant) : \A l \in TilesLedBy(plant) : k <= l

\* C16: dominant_crops has exactly one entry per category that is first-ranked
\* in some tile, its count the number of tiles whose first-ranked
\* recommendation has that category; the entries are in descending order of
\* count, and entries of equal count in the order their categories were
\* first seen.
C16_DominantCounts ==
    Summarized =>
        LET dominant == s_ret.value.dominant_crops
        IN  /\ {dominant[i].plant : i \in DOMAIN dominant} = {FirstRanked(k) : k \in Recommended}
            /\ \A i, j \in DOMAIN dominant : dominant[i].plant = dominant[j].plant => i = j
            /\ \A i \in DOMAIN dominant :
                dominant[i].tiles = Cardinality(TilesLedBy(dominant[i].plant))
            /\ \A i, j \in DOMAIN dominant :
                i < j => \/ dominant[i].tiles > dominant[j].tiles
                         \/ /\ dominant[i].tiles = dominant[j].tiles
                            /\ FirstSeen(dominant[i].plant) < FirstSeen(dominant[j].plant)

\* C16 witness: of three tiles, one with an empty list, the category seen
\* first leads fewer tiles than the other and comes second.
C16_Witness ==
    /\ Summarized
    /\ Len(s_tiles) = 3
    /\ Len(s_ret.value.dominant_crops) = 2
    /\ s_ret.value.dominant_crops[1].tiles > s_ret.value.dominant_crops[2].tiles
    /\ FirstSeen(s_ret.value.dominant_crops[2].plant)
            < FirstSeen(s_ret.value.dominant_crops[1].plant)

\* The recommendations (tile, rank) of a category whose confidence is a number
Rated(plant) ==
    {p \in Recommended \X (1..2) :
        /\ p[2] \in DOMAIN s_tiles[p[1]].gemini_recommendations.items
        /\ s_tiles[p[1]].gemini_recommendations.items[p[2]].d["plant"] = plant
        /\ "confidence" \in DOMAIN s_tiles[p[1]].gemini_recommendations.items[p[2]].d
        /\ s_tiles[p[1]].gemini_recommendations.items[p[2]].d["confidence"].t = "num"}
ConfidenceAt(p) == s_tiles[p[1]].gemini_recommendations.items[p[2]].d["confidence"]

RECURSIVE TotalConfidence(_)
TotalConfidence(S) ==
    IF S = {} THEN Num(0)
    ELSE LET p == CHOOSE q \in S : TRUE
         IN  Plus(ConfidenceAt(p), TotalConfidence(S \ {p}))

RecsOfTiles == [k \in DOMAIN s_tiles |-> s_tiles[k].gemini_recommendations]

\* C17: the avg_confidence of a category is the mean of the numeric
\* confidences of the recommendations of that category at any rank of any
\* tile, the others being ignored; [(Rice, 0.9)], [(Rice, 0.7)],
\* [(Corn, 0.5)] give [Rice: 2 tiles, 0.8], [Corn: 1 tile, 0.5].
C17_AverageConfidence ==
    Summarized =>
        LET dominant == s_ret.value.dominant_crops
        IN  /\ \A i \in DOMAIN dominant :
                LET rated == Rated(dominant[i].plant)
                    total == TotalConfidence(rated)
                IN  rated # {} =>
                        /\ dominant[i].avg_confidence.t = "num"
                        /\ Numer(dominant[i].avg_confidence) * Denom(total) * Cardinality(rated)
                                = Numer(total) * Denom(dominant[i].avg_confidence)
            /\ RecsOfTiles = << List(<<Rec("Rice", Quotient(9, 10))>>),
                                List(<<Rec("Rice", Quotient(7, 10))>>),
                                List(<<Rec("Corn", Quotient(5, 10))>>) >>
                => dominant = << [plant |-> Str("Rice"), tiles |-> 2,
                                  avg_confidence |-> Quotient(8, 10)],
                                 [plant |-> Str("Corn"), tiles |-> 1,
                                  avg_confidence |-> Quotient(5, 10)] >>

\* C17 witness: Rice is rated 0.9 at the first rank of one tile and 0.1 at
\* the second rank of another, a third Rice has a confidence that is no
\* number, and the average reported for Rice is 0.5.
C17_Witness ==
    /\ Summarized
    /\ RecsOfTiles = << List(<<Rec("Rice", Quotient(9, 10))>>),
                        List(<<Rec("Corn", Quotient(5, 10)), Rec("Rice", Quotient(1, 10))>>),
                        List(<<Rec("Rice", Str("high"))>>) >>
    /\ s_ret.value.dominant_crops[1] =
            [plant |-> Str("Rice"), tiles |-> 2, avg_confidence |-> Quotient(1, 2)]

\* The value a tile carries for a signal: the value under the keys of the
\* signal when the dicts on the way are there, None otherwise
Carried(k, path) ==
    LET v == s_tiles[k].variables
    IN  IF Len(path) = 3
        THEN IF HasKey(v, path[1]) /\ HasKey(v.d[path[1]], path[2])
                    /\ HasKey(v.d[path[1]].d[path[2]], path[3])
             THEN v.d[path[1]].d[path[2]].d[path[3]] ELSE None
        ELSE IF HasKey(v, path[1]) /\ HasKey(v.d[path[1]], path[2])
             THEN v.d[path[1]].d[path[2]] ELSE None
NdviCarried(k) == Carried(k, <<"landcover", "vegetation_indices", "ndvi">>)
NdwiCarried(k) == Carried(k, <<"landcover", "vegetation_indices", "ndwi">>)
\* the precipitation under "data", or at the top level when "data" has none
PrecipCarried(k) ==
    IF Carried(k, <<"seasonal", "data", "long_term_avg_precip_mm">>) # None
    THEN Carried(k, <<"seasonal", "data", "long_term_avg_precip_mm">>)
    ELSE Carried(k, <<"seasonal", "long_term_avg_precip_mm">>)

\* The sum of the values f[k] for k in S
RECURSIVE TotalOf(_, _)
TotalOf(S, f) ==
    IF S = {} THEN Num(0)
    ELSE LET k == CHOOSE l \in S : TRUE
         IN  Plus(f[k], TotalOf(S \ {k}, f))

\* The mean of the values f[k] for k in S, S not empty
MeanOf(S, f) ==
    LET total == TotalOf(S, f)
    IN  Quotient(Numer(total), Denom(total) * Cardinality(S))

\* What env_summary is to hold when the tiles S contribute the values f[k]
\* under a key: nothing for no tile, the formatted mean otherwise
Reports(key, S, text) ==
    LET env == s_ret.value.env_summary
    IN  /\ key \in DOMAIN env <=> S # {}
        /\ S # {} => env[key] = Str(text)

\* C18 (as claimed): for ndvi, ndwi and the long-term average precipitation,
\* env_summary reports the mean over exactly the tiles that carry a number
\* for the signal, 0 included, and has no entry for a signal no tile carries
\* a number for.
C18_MeanOverNumericTiles ==
    Summarized =>
        LET ndvi == [k \in DOMAIN s_tiles |-> NdviCarried(k)]
            ndwi == [k \in DOMAIN s_tiles |-> NdwiCarried(k)]
            precip == [k \in DOMAIN s_tiles |-> PrecipCarried(k)]
            with_ndvi == {k \in DOMAIN s_tiles : ndvi[k].t = "num"}
            with_ndwi == {k \in DOMAIN s_tiles : ndwi[k].t = "num"}
            with_precip == {k \in DOMAIN s_tiles : precip[k].t = "num"}
        IN  /\ Reports(KeyNdvi, with_ndvi,
                       IF with_ndvi = {} THEN ""
                       ELSE format_f(MeanOf(with_ndvi, ndvi), 3))
            /\ Reports(KeyNdwi, with_ndwi,
                       IF with_ndwi = {} THEN ""
                       ELSE format_f(MeanOf(with_ndwi, ndwi), 3))
            /\ Reports(KeyPrecip, with_precip,
                       IF with_precip = {} THEN ""
                       ELSE format_f(MeanOf(with_precip, precip), 1) \o " mm")

\* The part of C18 about the two indices
IndicesReported ==
    Summarized =>
        LET ndvi == [k \in DOMAIN s_tiles |-> NdviCarried(k)]
            ndwi == [k \in DOMAIN s_tiles |-> NdwiCarried(k)]
            with_ndvi == {k \in DOMAIN s_tiles : ndvi[k].t = "num"}
            with_ndwi == {k \in DOMAIN s_tiles : ndwi[k].t = "num"}
        IN  /\ Reports(KeyNdvi, with_ndvi,
                       IF with_ndvi = {} THEN ""
                       ELSE format_f(MeanOf(with_ndvi, ndvi), 3))
            /\ Reports(KeyNdwi, with_ndwi,
                       IF with_ndwi = {} THEN ""
                       ELSE format_f(MeanOf(with_ndwi, ndwi), 3))

\* C19: on an empty tile list build_summary returns a tile count of 0, no
\* dominant crop and an empty env_summary, whatever the Area.
C19_EmptyTileList ==
    (s_pc # "call" /\ s_tiles = <<>>) =>
        /\ s_ret.raised = "none"
        /\ s_ret.value.tile_count = 0
        /\ s_ret.value.dominant_crops = <<>>
        /\ s_ret.value.env_summary = <<>>

\* C19 witness: build_summary has returned for an Area without tiles whose
\* processing time was never set.
C19_Witness ==
    /\ s_pc = "done"
    /\ s_tiles = <<>>
    /\ s_area.processing_seconds = None
    /\ s_ret.raised = "none"
    /\ s_ret.value.tile_count = 0

\* C20: build_summary changes neither the Area nor a tile, and the summary
\* get_area_detail computes later from the stored rows is the one
\* process_area returned.
C20_SummaryRederivable ==
    /\ [](detail # NoValue /\ response.code = 200 =>
            /\ detail.code = 200
            /\ detail.aggregates = response.aggregates)
    /\ [][pc = "summary" => (area' = area /\ tiles' = tiles /\ db' = db)]_vars

\* C20 witness: the detail request rebuilt, from the committed Area and its
\* three tiles, two or more with recommendations, the summary of the
\* response, more than one dominant crop in it.
C20_Witness ==
    /\ detail # NoValue
    /\ response.code = 200
    /\ Len(db.committed.tiles) = 3
    /\ Cardinality({k \in DOMAIN tiles : Truthy(tiles[k].gemini_recommendations)}) >= 2
    /\ Len(response.aggregates.dominant_crops) > 1
    /\ detail.code = 200
    /\ detail.aggregates = response.aggregates

-----------------------------------------------------------------------------
(* The life of an Area and of its tiles during one request.                *)

\* models.py:7-12: the place of a status in the order of the phases
PhaseRank(status) ==
    CASE status = "collecting" -> 1
      [] status = "collected" -> 2
      [] status = "enriching" -> 3
      [] status \in {"enriched", "failed"} -> 4
      [] OTHER -> 0

\* The enrichment block of the request has ended without an exception
EnrichmentSucceeded ==
    /\ pc \in {"save", "summary", "done"}
    /\ area # NoArea
    /\ recommendations # Raised
    /\ ~apply_recommendations(tiles, recommendations).raised

\* C21: the status of the Area of a request only moves forward in the order
\* collecting, collected, enriching, enriched or failed; once enriched or
\* failed it stays so; and a request whose collection and enrichment both
\* succeed ends with the Area enriched.
C21_StatusInPhaseOrder ==
    /\ [][(area # NoArea /\ area' # NoArea) =>
            /\ PhaseRank(area'.status) >= PhaseRank(area.status)
            /\ area.status \in {"enriched", "failed"} => area'.status = area.status]_vars
    /\ [](area # NoArea => PhaseRank(area.status) > 0)
    /\ []((pc = "done" /\ EnrichmentSucceeded) => area.status = "enriched")

\* C21 witness: a request over three tiles has answered with the Area
\* enriched, every tile having received its list.
C21_Witness ==
    /\ pc = "done"
    /\ EnrichmentSucceeded
    /\ Len(tiles) = 3
    /\ area.status = "enriched"
    /\ \A k \in DOMAIN tiles : tiles[k].status = "enriched"

\* Every collect task of the batch has been submitted, has ended and has
\* been taken by the request thread
BatchJoined ==
    /\ Len(task) = NValid
    /\ \A i \in DOMAIN task : task[i] = "consumed"

\* A step of the request that changes a field of the Area object, a Tile
\* object or a row, the creation of the Area aside, is taken when the
\* batch has joined (so never by a running collect task).
WritesAfterJoin ==
    ((area # NoArea /\ area' # area) \/ tiles' # tiles
        \/ (db.area # NoArea /\ db' # db) \/ db'.tiles # db.tiles) => BatchJoined

\* C22 (as claimed): the status of the Area and its processing time are
\* each changed once only, by the request, after the collect tasks have
\* joined.
C22_StatusChangedOnce ==
    [][/\ WritesAfterJoin
       /\ (area # NoArea /\ area' # NoArea) =>
            /\ area'.status # area.status => area.status = "collecting"
            /\ area'.processing_seconds # area.processing_seconds
                    => area.processing_seconds = None]_vars

\* C22 (amended): the row of the Area has its status and its processing time
\* written once after its creation, by the area.save() that ends the
\* request; the Area object takes two statuses after "collecting"
\* ("collected", then "enriched" or "failed") and its processing time once;
\* every such change, and every change of a Tile object or row, is made by
\* the request after the collect tasks have joined.
C22_RowWrittenOnce ==
    [][/\ WritesAfterJoin
       /\ (db.area # NoArea /\ db'.area # NoArea /\ db'.area # db.area) =>
            /\ db.area.status = "collecting" /\ db'.area.status \in {"enriched", "failed"}
            /\ db.area.processing_seconds = None /\ db'.area.processing_seconds # None
       /\ (area # NoArea /\ area' # NoArea) =>
            /\ area'.status # area.status => area.status \in {"collecting", "collected"}
            /\ area'.processing_seconds # area.processing_seconds
                    => area.processing_seconds = None]_vars

\* C22 witness: three collect tasks have joined, one of them after a
\* provider failure, and the row of the Area holds the final status and the
\* processing time.
C22_Witness ==
    /\ pc = "done"
    /\ Len(task) = 3
    /\ BatchJoined
    /\ \E i \in DOMAIN raising : raising[i] # {}
    /\ db.area.status = "enriched"
    /\ db.area.processing_seconds # None
    /\ Len(db.tiles) = 3

\* min(a, b)
Lesser(a, b) == IF a < b THEN a ELSE b

\* C23: at most min(max-workers, number of valid tiles) collect tasks run at
\* a time, max-workers being the setting or 1 when the setting is below 1;
\* at most min(4, number of providers) provider calls of one collect run at
\* a time, whatever the setting.
C23_PoolBounds ==
    /\ Cardinality(Running)
        <= Lesser(IF gee_max_workers < 1 THEN 1 ELSE gee_max_workers, NValid)
    /\ Cardinality(c_Running) <= Lesser(4, Len(Providers))

\* C23 witness: with max-workers 2 and three valid tiles, two collect tasks
\* run and the third waits in the queue.
C23_Witness ==
    /\ gee_max_workers = 2
    /\ NValid = 3
    /\ Cardinality(Running) = 2
    /\ \E i \in DOMAIN task : task[i] = "queued"

\* Four provider calls of one collect run and two wait in the queue
C23_InnerPoolFull ==
    /\ Cardinality(c_Running) = 4
    /\ Cardinality({name \in ProviderNames : c_state[name] = "queued"}) = 2

\* What the call of a provider leaves for its entry: the error record of the
\* exception it raised, or what it returned
EntryOfCall(name) ==
    IF c_call[name].kind = "raise" THEN ErrorRecord(c_call[name].msg) ELSE c_call[name].val

\* C24: at every moment of a collect call the results stored are those of
\* the provider calls taken so far, each under the name of its own
\* provider, and the map returned is determined by what the six calls did:
\* the order in which they ended and were taken does not enter it.
C24_OrderIndependent ==
    /\ c_pc # "off" =>
        /\ DOMAIN c_results = {name \in ProviderNames : c_state[name] = "consumed"}
        /\ \A name \in DOMAIN c_results : c_results[name] = EntryOfCall(name)
    /\ c_pc = "returned" =>
        c_ret = Dict([name \in ProviderNames |-> EntryOfCall(name)])

\* C24 witness: the result of the last provider submitted is stored, under
\* its own name, while the call of the first provider is still running and
\* another call has raised.
C24_Witness ==
    /\ c_pc = "wait"
    /\ c_state["climate"] = "running"
    /\ "nighttime" \in DOMAIN c_results
    /\ c_results["nighttime"] = OkPayload("nighttime", c_arg[1], c_arg[2])
    /\ \E name \in DOMAIN c_results : c_call[name].kind = "raise"

\* C25 (as claimed): the client is initialized at most once per process,
\* also when several threads call _ensure_initialized at the same time.
C25_InitializedAtMostOnce == e_inits <= 1

\* A call that reads the flag after an initialization has set it returns
\* without initializing
LaterCallsReturn ==
    [][\A t \in DOMAIN e_pc :
        (e_flag /\ e_pc[t] = "check" /\ e_pc'[t] # "check") =>
            (e_pc'[t] = "idle" /\ e_inits' = e_inits)]_vars

\* What _collect_variables gave a tile: indices, centroid, geometry, variables
CollectedPart(tile) ==
    <<tile.row_index, tile.col_index, tile.centroid_lat, tile.centroid_lon,
      tile.geometry, tile.variables>>

\* C26: the tiles of a request are created once, with their variables; from
\* then on the indices, the centroid, the geometry and the variables of a
\* tile never change, in the object or in its row (until a rollback takes
\* the rows away), and its recommendation list and status change only in
\* the one step in which _apply_recommendations runs.
C26_FieldsWrittenOnce ==
    [][/\ tiles # <<>> =>
            /\ DOMAIN tiles' = DOMAIN tiles
            /\ \A k \in DOMAIN tiles :
                /\ CollectedPart(tiles'[k]) = CollectedPart(tiles[k])
                /\ tiles'[k] # tiles[k] => (pc = "apply" /\ pc' = "save")
       /\ (db.tiles # <<>> /\ db' # NoRows) =>
            /\ DOMAIN db'.tiles = DOMAIN db.tiles
            /\ \A k \in DOMAIN db.tiles :
                /\ CollectedPart(db'.tiles[k]) = CollectedPart(db.tiles[k])
                /\ db'.tiles[k] # db.tiles[k] => (pc = "apply" /\ pc' = "save")
       /\ tiles' # tiles => pc \in {"wait", "apply"}]_vars

\* C26 witness: the request has answered; of its three tiles one holds the
\* error record of its failed collect and one a recommendation list.
C26_Witness ==
    /\ pc = "done"
    /\ Len(tiles) = 3
    /\ Len(db.tiles) = 3
    /\ \E k \in DOMAIN tiles : HasKey(tiles[k].variables, "message")
    /\ \E k \in DOMAIN tiles :
        /\ tiles[k].gemini_recommendations \notin {EmptyList, None}
        /\ db.tiles[k].gemini_recommendations = tiles[k].gemini_recommendations
        /\ HasKey(tiles[k].variables, "landcover")

\* _collect_variables has returned or raised
CollectLeft == pc \in {"mark", "recommend", "apply", "save", "summary", "done"}

\* C27: when every call ends in finite time, _collect_variables submits one
\* collect task per valid tile, takes the result of every one of them and
\* returns with no task outstanding, and process_area answers in the end.
C27_CollectTerminates ==
    /\ [](pc = "wait" => Len(task) = NValid)
    /\ [](CollectLeft =>
            /\ Len(task) = NValid
            /\ pc = "mark" => Len(results) = NValid
            /\ \A i \in DOMAIN task : task[i] = "consumed")
    /\ (pc = "create") ~> (pc = "done" /\ response # NoValue)

\* A collect call returns once its six provider calls ended and their
\* results were stored, whatever they returned or raised.
CollectReturns ==
    (c_pc = "submit") ~>
        (c_pc = "returned" /\ \A name \in ProviderNames : c_state[name] = "consumed")

\* C27 witness: the request has answered after its pool of two threads ran
\* the collect tasks of three tiles, one of which raised.
C27_Witness ==
    /\ pc = "done"
    /\ response # NoValue
    /\ NValid = 3
    /\ max_workers(gee_max_workers, NValid) = 2
    /\ \A i \in DOMAIN task : task[i] = "consumed"
    /\ \E i \in DOMAIN futures : futures[i].kind = "exception"

\* The coordinates a geometry contains, a Feature and the features of a
\* FeatureCollection looked into
RECURSIVE Contained(_)
Contained(geometry) ==
    CASE geometry.type = "Polygon" -> Flatten(geometry.coordinates)
      [] geometry.type = "MultiPolygon" -> Flatten(Flatten(geometry.coordinates))
      [] geometry.type = "Feature" -> Contained(geometry.geometry)
      [] geometry.type = "FeatureCollection" ->
            Flatten([i \in DOMAIN geometry.features |-> Contained(geometry.features[i])])
      [] OTHER -> <<>>

\* A geometry all made of the four supported types
RECURSIVE Supported(_)
Supported(geometry) ==
    CASE geometry.type \in {"Polygon", "MultiPolygon"} -> TRUE
      [] geometry.type = "Feature" -> Supported(geometry.geometry)
      [] geometry.type = "FeatureCollection" ->
            \A i \in DOMAIN geometry.features : Supported(geometry.features[i])
      [] OTHER -> FALSE

Returned28 == b_pc = "returned"

\* C28: compute_bounds returns the envelope of the coordinates of the
\* geometry itself whenever the geometry, of a supported type, contains a
\* coordinate, whatever the matrix and the tiles are.
C28_GeometryEnvelopeFirst ==
    (/\ Returned28
     /\ Supported(b_arg.geometry)
     /\ Contained(b_arg.geometry) # <<>>)
        => b_ret = bounds_from_coords(Contained(b_arg.geometry))

\* What holds of the code: the envelope of the geometry is returned when
\* the geometry is a Polygon, a MultiPolygon or a FeatureCollection of such
\* features and contains a coordinate.
C28_ExceptFeature ==
    (/\ Returned28
     /\ Supported(b_arg.geometry)
     /\ b_arg.geometry.type # "Feature"
     /\ Contained(b_arg.geometry) # <<>>)
        => b_ret = bounds_from_coords(Contained(b_arg.geometry))

\* The fallbacks: without a coordinate of the geometry the matrix decides,
\* then the tiles, and None is returned only when none of them has one.
C28_Fallbacks ==
    (/\ Returned28
     /\ b_arg.geometry.type \notin {"Feature", "FeatureCollection"}
     /\ Contained(b_arg.geometry) = <<>>)
        => /\ bounds_from_matrix(b_arg.matrix) # None
                => b_ret = bounds_from_matrix(b_arg.matrix)
           /\ bounds_from_matrix(b_arg.matrix) = None
                => b_ret = bounds_from_tiles(b_arg.tiles)

\* The atomic block of process_area (views.py:233-268) is open
InBlock == pc \in {"collect", "submit", "wait", "mark", "recommend", "apply", "save"}

\* C29: the other connections see an Area of the request only with status
\* "enriched" or "failed", with its processing time and with one tile for
\* every valid descriptor; nothing is committed while the atomic block is
\* open, the Area and its tiles are committed in one step, and a request
\* whose block raised leaves no Area and no Tile.
C29_CommittedAllOrNothing ==
    /\ [](db # NoValue =>
            /\ InBlock => db.committed = NoCommitted
            /\ db.committed.area = NoArea => db.committed.tiles = <<>>
            /\ db.committed.area # NoArea =>
                /\ db.committed.area.status \in {"enriched", "failed"}
                /\ db.committed.area.processing_seconds # None
                /\ Len(db.committed.tiles) = NValid
                /\ db.committed.area = area
                /\ db.committed.tiles = tiles
            /\ (pc = "done" /\ response = [code |-> 500] /\ applied <= Len(tiles))
                    => db.committed = NoCommitted)
    /\ [][db # NoValue /\ db'.committed # db.committed =>
            (pc = "save" /\ db.committed = NoCommitted)]_vars

\* C29 witness: the block of a request for three tiles was left by commit,
\* the Area "failed" after a failed recommend call.
C29_Witness ==
    /\ pc = "done"
    /\ db.committed.area.status = "failed"
    /\ Len(db.committed.tiles) = 3
    /\ recommendations = Raised

\* A request whose block raised has answered by the error page and left
\* nothing.
C29_RolledBack ==
    /\ pc = "done"
    /\ response = [code |-> 500]
    /\ tiles # <<>>
    /\ db = NoRows

\* C30: build_summary raises on no tile set the collector and the merger
\* can produce: it returns a summary.
C30_SummaryNeverRaises ==
    s_pc \in {"again", "done"} => s_ret.raised = "none"

\* A provider entry that is a dict or absent, and a first recommendation
\* that names its plant
Summarizable(tile) ==
    /\ \A name \in {"landcover", "seasonal"} :
            HasKey(tile.variables, name) => IsDict(tile.variables.d[name])
    /\ \A k \in DOMAIN recs_of(tile).items : HasKey(recs_of(tile).items[k], "plant")

\* What holds of the code: tiles with a tile-level error record, with the
\* error record of a provider or with a recommendation without confidence
\* are summarized; build_summary raises exactly when a provider entry it
\* reads is no dict or a recommendation it reads has no plant.
C30_RaisesOnNullOrNoPlant ==
    s_pc \in {"again", "done"} =>
        (s_ret.raised = "none" <=> \A k \in DOMAIN s_tiles : Summarizable(s_tiles[k]))
=============================================================================
